---- MODULE Spec2Model ----
(***************************************************************************)
(* Model of the server directory containers of bugle:                      *)
(*   src/src/servers/containers.rs  (ServerList, ServerListView, Filter,   *)
(*                                   SortCriteria)                         *)
(* Text is a sequence of code points, an Option is <<>> (None) or <<v>>    *)
(* (Some(v)), an Ordering is one of "Less", "Equal", "Greater", and a     *)
(* position in a list is 0-based as in the source.                         *)
(***************************************************************************)
EXTENDS Integers, Sequences, FiniteSets, TLC

VARIABLES
    servers,    \* the backing Vec<Server> of the base ServerList
    views,      \* the ServerListViews derived so far; views[k] is list k, the base is list 0
    history,    \* history[k]: the call that built views[k] and its argument
    filter,     \* a Filter under construction
    given,      \* the texts last passed to filter.set_name and filter.set_map
    call,       \* a comparator call: its criteria, its two records and what it returned
    ini,        \* bugle.ini: the value of each key, <<>> for a key the file does not hold;
                \* Ini_unparseable while the file cannot be parsed
    config,     \* the Config in memory
    fresh,      \* TRUE while config is what the last load returned and the file is as it was then
    phase,      \* where the refresh cycle is
    behaviour,  \* what the server at each address does with a status request
    exchange,   \* the exchange of the Query Client with each fetched address
    delivered,  \* the record updates delivered to the caller, in order of arrival
    published,  \* the validity of each record of the published ServerList
    game_ini,   \* <<the keys of Game.ini>>, <<>> while the file does not exist
    last_session, \* Game.last_session: what Game::new read from Game.ini
    reread,     \* TRUE while last_session was read after the last call
    last_call,  \* <<the last call that saved Game.ini>>, <<>> if there is none
    result,     \* what the last call returned
    calls,      \* number of calls of join_server and launch_single_player
    launched,   \* number of game processes started
    failed_saves, \* number of saves of Game.ini that returned Err
    steam,      \* the Steam instance, the Steam client it talks to and its auth_ticket calls
    this_update,   \* the update try_consolidate is called on
    other_update,  \* the update it is called with
    consolidated   \* the value of the call

listVars == <<servers, views, history>>
filterVars == <<filter, given>>
cmpVars == <<call>>
configVars == <<ini, config, fresh>>
queryVars == <<phase, behaviour, exchange, delivered, published>>
gameVars == <<game_ini, last_session, reread, last_call, result, calls, launched, failed_saves>>
steamVars == <<steam>>
updateVars == <<this_update, other_update, consolidated>>

vars == <<listVars, filterVars, cmpVars, configVars, queryVars, gameVars, steamVars, updateVars>>

\* What the steps of each specification leave alone.
outsideLists == <<filterVars, cmpVars, configVars, queryVars, gameVars, steamVars, updateVars>>
outsideFilter == <<listVars, cmpVars, configVars, queryVars, gameVars, steamVars, updateVars>>
outsideCmp == <<listVars, filterVars, configVars, queryVars, gameVars, steamVars, updateVars>>
outsideConfig == <<listVars, filterVars, cmpVars, queryVars, gameVars, steamVars, updateVars>>
outsideQuery == <<listVars, filterVars, cmpVars, configVars, gameVars, steamVars, updateVars>>
outsideGame == <<listVars, filterVars, cmpVars, configVars, queryVars, steamVars, updateVars>>
outsideSteam == <<listVars, filterVars, cmpVars, configVars, queryVars, gameVars, updateVars>>
outsideUpdate == <<listVars, filterVars, cmpVars, configVars, queryVars, gameVars, steamVars>>

(***************************************************************************)
(* Bounds of the model.                                                    *)
(***************************************************************************)
MaxLen == 3
MaxViews == 2
MaxPatLen == 2
MaxNameLen == 3
NumAddrs == 3       \* addresses of the master list
Cap == 2            \* simultaneously in-flight exchanges
MaxRetries == 1     \* retries of one exchange
MaxChanged == 1     \* settings of a Config that differ from the default
MaxCalls == 2       \* calls of join_server and launch_single_player, direct launches
MaxFailedSaves == 1 \* saves of Game.ini that return Err
MaxAuthCalls == 4   \* calls of auth_ticket
MaxBatch == 1       \* server responses in a batch update handed to try_consolidate
NumResponses == 2   \* distinct server responses

(***************************************************************************)
(* Text.  Code points used: 46 '.', 65 'A', 66 'B', 92 '\', 97 'a', 98 'b'.*)
(***************************************************************************)
RECURSIVE Strs(_, _)
Strs(alphabet, n) ==
    IF n = 0 THEN {<<>>}
    ELSE LET shorter == Strs(alphabet, n - 1)
         IN  shorter \cup {Append(s, c) : s \in shorter, c \in alphabet}

\* Option<T>
Option(S) == {<<>>} \cup {<<v>> : v \in S}

\* Ord for integers (u32, enum discriminants, code points).
IntCmp(a, b) == IF a < b THEN "Less" ELSE IF a > b THEN "Greater" ELSE "Equal"

\* Ord for String: lexicographic by code point, a proper prefix is Less.
RECURSIVE StrCmpFrom(_, _, _)
StrCmpFrom(a, b, i) ==
    IF i > Len(a) /\ i > Len(b) THEN "Equal"
    ELSE IF i > Len(a) THEN "Less"
    ELSE IF i > Len(b) THEN "Greater"
    ELSE IF a[i] # b[i] THEN IntCmp(a[i], b[i])
    ELSE StrCmpFrom(a, b, i + 1)

StrCmp(a, b) == StrCmpFrom(a, b, 1)

\* Ordering::then_with
then_with(first, second) == IF first = "Equal" THEN second ELSE first

\* Ordering::reverse
reverse(ord) ==
    IF ord = "Less" THEN "Greater" ELSE IF ord = "Greater" THEN "Less" ELSE "Equal"

\* Unicode simple case folding (CaseFolding.txt, status C and S), which the
\* regex crate applies to a case-insensitive literal: <<first, last, step,
\* delta>> folds every step-th code point from first to last to itself plus
\* delta; a code point in no entry folds to itself.
SimpleCaseFolding ==
    <<<<65, 90, 1, 32>>, <<181, 181, 1, 775>>, <<192, 214, 1, 32>>, <<216, 222, 1, 32>>,
      <<256, 302, 2, 1>>, <<306, 310, 2, 1>>, <<313, 327, 2, 1>>, <<330, 374, 2, 1>>,
      <<376, 376, 1, -121>>, <<377, 381, 2, 1>>, <<383, 383, 1, -268>>, <<385, 385, 1, 210>>,
      <<386, 388, 2, 1>>, <<390, 390, 1, 206>>, <<391, 391, 1, 1>>, <<393, 394, 1, 205>>,
      <<395, 395, 1, 1>>, <<398, 398, 1, 79>>, <<399, 399, 1, 202>>, <<400, 400, 1, 203>>,
      <<401, 401, 1, 1>>, <<403, 403, 1, 205>>, <<404, 404, 1, 207>>, <<406, 406, 1, 211>>,
      <<407, 407, 1, 209>>, <<408, 408, 1, 1>>, <<412, 412, 1, 211>>, <<413, 413, 1, 213>>,
      <<415, 415, 1, 214>>, <<416, 420, 2, 1>>, <<422, 422, 1, 218>>, <<423, 423, 1, 1>>,
      <<425, 425, 1, 218>>, <<428, 428, 1, 1>>, <<430, 430, 1, 218>>, <<431, 431, 1, 1>>,
      <<433, 434, 1, 217>>, <<435, 437, 2, 1>>, <<439, 439, 1, 219>>, <<440, 440, 1, 1>>,
      <<444, 444, 1, 1>>, <<452, 452, 1, 2>>, <<453, 453, 1, 1>>, <<455, 455, 1, 2>>,
      <<456, 456, 1, 1>>, <<458, 458, 1, 2>>, <<459, 475, 2, 1>>, <<478, 494, 2, 1>>,
      <<497, 497, 1, 2>>, <<498, 500, 2, 1>>, <<502, 502, 1, -97>>, <<503, 503, 1, -56>>,
      <<504, 542, 2, 1>>, <<544, 544, 1, -130>>, <<546, 562, 2, 1>>, <<570, 570, 1, 10795>>,
      <<571, 571, 1, 1>>, <<573, 573, 1, -163>>, <<574, 574, 1, 10792>>, <<577, 577, 1, 1>>,
      <<579, 579, 1, -195>>, <<580, 580, 1, 69>>, <<581, 581, 1, 71>>, <<582, 590, 2, 1>>,
      <<837, 837, 1, 116>>, <<880, 882, 2, 1>>, <<886, 886, 1, 1>>, <<895, 895, 1, 116>>,
      <<902, 902, 1, 38>>, <<904, 906, 1, 37>>, <<908, 908, 1, 64>>, <<910, 911, 1, 63>>,
      <<913, 929, 1, 32>>, <<931, 939, 1, 32>>, <<962, 962, 1, 1>>, <<975, 975, 1, 8>>,
      <<976, 976, 1, -30>>, <<977, 977, 1, -25>>, <<981, 981, 1, -15>>, <<982, 982, 1, -22>>,
      <<984, 1006, 2, 1>>, <<1008, 1008, 1, -54>>, <<1009, 1009, 1, -48>>, <<1012, 1012, 1, -60>>,
      <<1013, 1013, 1, -64>>, <<1015, 1015, 1, 1>>, <<1017, 1017, 1, -7>>, <<1018, 1018, 1, 1>>,
      <<1021, 1023, 1, -130>>, <<1024, 1039, 1, 80>>, <<1040, 1071, 1, 32>>, <<1120, 1152, 2, 1>>,
      <<1162, 1214, 2, 1>>, <<1216, 1216, 1, 15>>, <<1217, 1229, 2, 1>>, <<1232, 1326, 2, 1>>,
      <<1329, 1366, 1, 48>>, <<4256, 4293, 1, 7264>>, <<4295, 4295, 1, 7264>>, <<4301, 4301, 1, 7264>>,
      <<5112, 5117, 1, -8>>, <<7296, 7296, 1, -6222>>, <<7297, 7297, 1, -6221>>, <<7298, 7298, 1, -6212>>,
      <<7299, 7300, 1, -6210>>, <<7301, 7301, 1, -6211>>, <<7302, 7302, 1, -6204>>, <<7303, 7303, 1, -6180>>,
      <<7304, 7304, 1, 35267>>, <<7305, 7305, 1, 1>>, <<7312, 7354, 1, -3008>>, <<7357, 7359, 1, -3008>>,
      <<7680, 7828, 2, 1>>, <<7835, 7835, 1, -58>>, <<7838, 7838, 1, -7615>>, <<7840, 7934, 2, 1>>,
      <<7944, 7951, 1, -8>>, <<7960, 7965, 1, -8>>, <<7976, 7983, 1, -8>>, <<7992, 7999, 1, -8>>,
      <<8008, 8013, 1, -8>>, <<8025, 8031, 2, -8>>, <<8040, 8047, 1, -8>>, <<8072, 8079, 1, -8>>,
      <<8088, 8095, 1, -8>>, <<8104, 8111, 1, -8>>, <<8120, 8121, 1, -8>>, <<8122, 8123, 1, -74>>,
      <<8124, 8124, 1, -9>>, <<8126, 8126, 1, -7173>>, <<8136, 8139, 1, -86>>, <<8140, 8140, 1, -9>>,
      <<8147, 8147, 1, -7235>>, <<8152, 8153, 1, -8>>, <<8154, 8155, 1, -100>>, <<8163, 8163, 1, -7219>>,
      <<8168, 8169, 1, -8>>, <<8170, 8171, 1, -112>>, <<8172, 8172, 1, -7>>, <<8184, 8185, 1, -128>>,
      <<8186, 8187, 1, -126>>, <<8188, 8188, 1, -9>>, <<8486, 8486, 1, -7517>>, <<8490, 8490, 1, -8383>>,
      <<8491, 8491, 1, -8262>>, <<8498, 8498, 1, 28>>, <<8544, 8559, 1, 16>>, <<8579, 8579, 1, 1>>,
      <<9398, 9423, 1, 26>>, <<11264, 11311, 1, 48>>, <<11360, 11360, 1, 1>>, <<11362, 11362, 1, -10743>>,
      <<11363, 11363, 1, -3814>>, <<11364, 11364, 1, -10727>>, <<11367, 11371, 2, 1>>, <<11373, 11373, 1, -10780>>,
      <<11374, 11374, 1, -10749>>, <<11375, 11375, 1, -10783>>, <<11376, 11376, 1, -10782>>, <<11378, 11378, 1, 1>>,
      <<11381, 11381, 1, 1>>, <<11390, 11391, 1, -10815>>, <<11392, 11490, 2, 1>>, <<11499, 11501, 2, 1>>,
      <<11506, 11506, 1, 1>>, <<42560, 42604, 2, 1>>, <<42624, 42650, 2, 1>>, <<42786, 42798, 2, 1>>,
      <<42802, 42862, 2, 1>>, <<42873, 42875, 2, 1>>, <<42877, 42877, 1, -35332>>, <<42878, 42886, 2, 1>>,
      <<42891, 42891, 1, 1>>, <<42893, 42893, 1, -42280>>, <<42896, 42898, 2, 1>>, <<42902, 42920, 2, 1>>,
      <<42922, 42922, 1, -42308>>, <<42923, 42923, 1, -42319>>, <<42924, 42924, 1, -42315>>, <<42925, 42925, 1, -42305>>,
      <<42926, 42926, 1, -42308>>, <<42928, 42928, 1, -42258>>, <<42929, 42929, 1, -42282>>, <<42930, 42930, 1, -42261>>,
      <<42931, 42931, 1, 928>>, <<42932, 42946, 2, 1>>, <<42948, 42948, 1, -48>>, <<42949, 42949, 1, -42307>>,
      <<42950, 42950, 1, -35384>>, <<42951, 42953, 2, 1>>, <<42955, 42955, 1, -42343>>, <<42956, 42956, 1, 1>>,
      <<42960, 42960, 1, 1>>, <<42966, 42970, 2, 1>>, <<42972, 42972, 1, -42561>>, <<42997, 42997, 1, 1>>,
      <<43888, 43967, 1, -38864>>, <<64261, 64261, 1, 1>>, <<65313, 65338, 1, 32>>, <<66560, 66599, 1, 40>>,
      <<66736, 66771, 1, 40>>, <<66928, 66938, 1, 39>>, <<66940, 66954, 1, 39>>, <<66956, 66962, 1, 39>>,
      <<66964, 66965, 1, 39>>, <<68736, 68786, 1, 64>>, <<68944, 68965, 1, 32>>, <<71840, 71871, 1, 32>>,
      <<93760, 93791, 1, 32>>, <<125184, 125217, 1, 34>>>>

\* The simple case folding of c.  Two characters match case-insensitively
\* when they fold to the same one.
Fold(c) ==
    IF c < 128 THEN (IF c >= 65 /\ c <= 90 THEN c + 32 ELSE c)
    ELSE LET hits == {i \in DOMAIN SimpleCaseFolding :
                        /\ SimpleCaseFolding[i][1] <= c
                        /\ c <= SimpleCaseFolding[i][2]
                        /\ (c - SimpleCaseFolding[i][1]) % SimpleCaseFolding[i][3] = 0}
         IN  IF hits = {} THEN c ELSE c + SimpleCaseFolding[CHOOSE i \in hits : TRUE][4]

(***************************************************************************)
(* regex: escape, RegexBuilder / Regex::new, is_match.  A compiled Regex   *)
(* is its pattern text and the case_insensitive flag.                      *)
(***************************************************************************)
\* The characters regex::escape puts a backslash before.
MetaChars == {92, 46, 43, 42, 63, 40, 41, 124, 91, 93, 123, 125, 94, 36, 35, 38, 45, 126}

escape_mut(text) == text

RECURSIVE escape(_)
escape(text) ==
    IF text = <<>> THEN <<>>
    ELSE (IF Head(text) \in MetaChars THEN <<92, Head(text)>> ELSE <<Head(text)>>)
         \o escape(Tail(text))

Regex_new(pattern) == [pattern |-> pattern, case_insensitive |-> FALSE]

RegexBuilder(pattern, ci) == [pattern |-> pattern, case_insensitive |-> ci]

\* The pattern as a sequence of atoms: a backslash makes the next character a
\* literal, an unescaped '.' stands for any character, anything else is itself.
RECURSIVE Atoms(_)
Atoms(pattern) ==
    IF pattern = <<>> THEN <<>>
    ELSE IF Head(pattern) = 92 /\ Len(pattern) >= 2
         THEN <<[any |-> FALSE, c |-> pattern[2]]>> \o Atoms(Tail(Tail(pattern)))
    ELSE IF Head(pattern) = 46
         THEN <<[any |-> TRUE, c |-> 46]>> \o Atoms(Tail(pattern))
    ELSE <<[any |-> FALSE, c |-> Head(pattern)]>> \o Atoms(Tail(pattern))

\* '.' matches any character but the line feed; a literal matches itself, or
\* with case_insensitive every character of its case folding class.
AtomMatches(atom, ci, c) ==
    IF atom.any THEN c # 10
    ELSE IF ci THEN Fold(atom.c) = Fold(c) ELSE atom.c = c

\* Regex::is_match: an unanchored search.
is_match(regex, text) ==
    LET atoms == Atoms(regex.pattern)
    IN  \E start \in 0..(Len(text) - Len(atoms)) :
            \A k \in 1..Len(atoms) :
                AtomMatches(atoms[k], regex.case_insensitive, text[start + k])

(***************************************************************************)
(* Server (the record model, servers/model.rs, is not part of the sources; *)
(* a record carries the fields containers.rs reads, and the derived mode). *)
(***************************************************************************)
Modes == 0..1
Regions == 0..1
Builds == {100, 999}

mode(server) == server.mode

(***************************************************************************)
(* Filter                                                                  *)
(***************************************************************************)
Filter_default ==
    [name |-> Regex_new(<<>>),
     map |-> Regex_new(<<>>),
     mode |-> <<>>,
     region |-> <<>>,
     build_id |-> <<>>,
     password_protected |-> FALSE]

set_name(f, name) == [f EXCEPT !.name = RegexBuilder(escape(name), TRUE)]

set_map(f, map) == [f EXCEPT !.map = RegexBuilder(escape(map), TRUE)]

set_mode(f, m) == [f EXCEPT !.mode = m]

set_region(f, region) == [f EXCEPT !.region = region]

set_build_id(f, build_id) == [f EXCEPT !.build_id = build_id]

set_password_protected(f, password_protected) ==
    [f EXCEPT !.password_protected = password_protected]

map_or_eq_mut(opt, actual) == IF opt = <<>> THEN FALSE ELSE actual = opt[1]

\* Option::map_or(true, |v| actual == v)
map_or_eq(opt, actual) == IF opt = <<>> THEN TRUE ELSE actual = opt[1]

\* bool's Ord: false < true
BoolGe(a, b) == (IF a THEN 1 ELSE 0) >= (IF b THEN 1 ELSE 0)

matches_mut_pw(f, server) ==
    /\ is_match(f.name, server.name)
    /\ is_match(f.map, server.map)
    /\ map_or_eq(f.mode, mode(server))
    /\ map_or_eq(f.region, server.region)
    /\ map_or_eq(f.build_id, server.build_id)
    /\ f.password_protected = server.password_protected

matches_mut_or(f, server) ==
    /\ is_match(f.name, server.name)
    /\ is_match(f.map, server.map)
    /\ \/ map_or_eq(f.mode, mode(server))
       \/ map_or_eq(f.region, server.region)
       \/ map_or_eq(f.build_id, server.build_id)
    /\ BoolGe(f.password_protected, server.password_protected)

matches(f, server) ==
    /\ is_match(f.name, server.name)
    /\ is_match(f.map, server.map)
    /\ map_or_eq(f.mode, mode(server))
    /\ map_or_eq(f.region, server.region)
    /\ map_or_eq(f.build_id, server.build_id)
    /\ BoolGe(f.password_protected, server.password_protected)

(***************************************************************************)
(* SortCriteria                                                            *)
(***************************************************************************)
SortKeys == {"Name", "Map", "Mode", "Region"}

SortCriterias == [key : SortKeys, ascending : BOOLEAN]

reversed(criteria) == [key |-> criteria.key, ascending |-> ~criteria.ascending]

tie_breaker_mut(lhs, rhs) == "Equal"

tie_breaker(lhs, rhs) == IntCmp(lhs.id, rhs.id)

key_cmp(key, lhs, rhs) ==
    CASE key = "Name" -> StrCmp(lhs.name, rhs.name)
      [] key = "Map" -> StrCmp(lhs.map, rhs.map)
      [] key = "Mode" -> IntCmp(mode(lhs), mode(rhs))
      [] key = "Region" -> IntCmp(lhs.region, rhs.region)

comparator_mut(criteria, lhs, rhs) ==
    LET primary == key_cmp(criteria.key, lhs, rhs)
    IN  then_with(IF criteria.ascending THEN primary ELSE reverse(primary),
                  tie_breaker(lhs, rhs))

comparator(criteria, lhs, rhs) ==
    LET cmp == then_with(key_cmp(criteria.key, lhs, rhs), tie_breaker(lhs, rhs))
    IN  IF criteria.ascending THEN cmp ELSE reverse(cmp)

(***************************************************************************)
(* ServerList and ServerListView.  List 0 is the base Vec<Server>, list k  *)
(* (k >= 1) is views[k]; a view holds the number of its source list and    *)
(* its indices into that source.                                           *)
(***************************************************************************)
\* Servers::len
len(n) == IF n = 0 THEN Len(servers) ELSE Len(views[n].indices)

\* reads the base list at the view's index, whatever the view's source is
at_mut(n, i) == IF n = 0 THEN servers[i + 1] ELSE servers[views[n].indices[i + 1] + 1]

\* Index::index: Vec<Server> by position, a view through its indices.
RECURSIVE at(_, _)
at(n, i) ==
    IF n = 0 THEN servers[i + 1]
    ELSE at(views[n].source, views[n].indices[i + 1])

\* Index::index with the bounds checks of Vec: <<record>>, or <<>> for the
\* out-of-range panic.
RECURSIVE index(_, _)
index(n, i) ==
    IF n = 0
    THEN IF i < Len(servers) THEN <<servers[i + 1]>> ELSE <<>>
    ELSE IF i < Len(views[n].indices)
         THEN index(views[n].source, views[n].indices[i + 1])
         ELSE <<>>

\* (0..n).collect()
Range0(n) == [k \in 1..n |-> k - 1]

\* One insertion of slice::sort_unstable_by: x moves left past every element it
\* is Less than.  A slice this short is sorted by insertion; no two records of a
\* list compare Equal, so every correct sort returns this order.
RECURSIVE insert_tail_mut(_, _, _, _)
insert_tail_mut(sorted, x, n, criteria) ==
    IF sorted = <<>> THEN <<x>>
    ELSE LET last == sorted[Len(sorted)]
         IN  IF comparator(criteria, at(0, x), at(0, last)) = "Less"
             THEN Append(insert_tail_mut(SubSeq(sorted, 1, Len(sorted) - 1), x, n, criteria), last)
             ELSE Append(sorted, x)

RECURSIVE insert_tail(_, _, _, _)
insert_tail(sorted, x, n, criteria) ==
    IF sorted = <<>> THEN <<x>>
    ELSE LET last == sorted[Len(sorted)]
         IN  IF comparator(criteria, at(n, x), at(n, last)) = "Less"
             THEN Append(insert_tail(SubSeq(sorted, 1, Len(sorted) - 1), x, n, criteria), last)
             ELSE Append(sorted, x)

RECURSIVE sort_unstable_by(_, _, _)
sort_unstable_by(indices, n, criteria) ==
    IF indices = <<>> THEN <<>>
    ELSE insert_tail(sort_unstable_by(SubSeq(indices, 1, Len(indices) - 1), n, criteria),
                     indices[Len(indices)], n, criteria)

\* sorts, then drops a record whose primary key equals its predecessor's
sorted_from_mut(source, criteria) ==
    LET all == sort_unstable_by(Range0(len(source)), source, criteria)
        keep(i) == i = 1 \/ key_cmp(criteria.key, at(source, all[i - 1]), at(source, all[i])) # "Equal"
    IN  [source |-> source,
         indices |-> [p \in 1..Cardinality({i \in 1..Len(all) : keep(i)}) |->
                        all[CHOOSE i \in 1..Len(all) :
                                keep(i) /\ Cardinality({h \in 1..i : keep(h)}) = p]]]

sorted_from(source, criteria) ==
    [source |-> source,
     indices |-> sort_unstable_by(Range0(len(source)), source, criteria)]

filtered_from_mut(source, f) ==
    [source |-> source,
     indices |-> SelectSeq(Range0(len(source)), LAMBDA idx : matches(f, at(0, idx)))]

\* keeps the positions in the base list instead of the positions in the source
filtered_from_mut_abs(source, f) ==
    LET kept == SelectSeq(Range0(len(source)), LAMBDA idx : matches(f, at(source, idx)))
    IN  [source |-> source,
         indices |-> [p \in 1..Len(kept) |->
                        IF source = 0 THEN kept[p] ELSE views[source].indices[kept[p] + 1]]]

\* walks the source from its last position to its first
filtered_from_mut_rev(source, f) ==
    LET kept == SelectSeq(Range0(len(source)), LAMBDA idx : matches(f, at(source, idx)))
    IN  [source |-> source,
         indices |-> [p \in 1..Len(kept) |-> kept[Len(kept) + 1 - p]]]

filtered_from(source, f) ==
    [source |-> source,
     indices |-> SelectSeq(Range0(len(source)), LAMBDA idx : matches(f, at(source, idx)))]

(***************************************************************************)
(* Inputs of the list specification.  The base list is a sequence of       *)
(* distinct records of the catalogue: the id of a record is its identity,  *)
(* no two records of a list share one.                                     *)
(***************************************************************************)
Catalogue ==
    {[id |-> 1, name |-> <<98>>, map |-> <<98>>, mode |-> 1, region |-> 0,
      build_id |-> 100, password_protected |-> FALSE],
     [id |-> 2, name |-> <<97>>, map |-> <<97>>, mode |-> 0, region |-> 1,
      build_id |-> 100, password_protected |-> TRUE],
     [id |-> 3, name |-> <<97>>, map |-> <<98>>, mode |-> 0, region |-> 0,
      build_id |-> 999, password_protected |-> FALSE],
     [id |-> 4, name |-> <<65>>, map |-> <<97>>, mode |-> 1, region |-> 1,
      build_id |-> 100, password_protected |-> FALSE]}

RECURSIVE ListsOfLen(_)
ListsOfLen(n) ==
    IF n = 0 THEN {<<>>}
    ELSE {Append(l, s) : l \in ListsOfLen(n - 1), s \in Catalogue}

Distinct(l) == \A i, j \in 1..Len(l) : i # j => l[i].id # l[j].id

Lists == UNION {{l \in ListsOfLen(n) : Distinct(l)} : n \in 0..MaxLen}

\* The filters handed to filtered(): built from Filter::default() by the setters.
ListFilters ==
    {Filter_default,
     set_password_protected(set_name(Filter_default, <<97>>), TRUE),
     set_password_protected(set_mode(Filter_default, <<0>>), TRUE),
     set_build_id(Filter_default, <<100>>),
     set_build_id(set_region(Filter_default, <<1>>), <<999>>)}

(***************************************************************************)
(* Config and its persistence, src/src/config.rs.  The Ini is the value of *)
(* each of its keys; a section without keys and a missing section load the *)
(* same.  The names of TypeFilter, Mode and Region live in servers/, which *)
(* is not part of the sources: the text of such a value is the pair of its *)
(* type and discriminant.                                                  *)
(***************************************************************************)
KEY_USE_BATTLEYE == "UseBattlEye"
KEY_TYPE_FILTER == "Type"
KEY_MODE == "Mode"
KEY_REGION == "Region"
KEY_BATTLEYE_REQUIRED == "BattlEyeRequired"
KEY_INCLUDE_INVALID == "IncludeInvalid"
KEY_INCLUDE_PASSWORD_PROTECTED == "IncludePasswordProtected"
KEY_INCLUDE_MODDED == "IncludeModded"
KEY_SORT_CRITERIA == "SortBy"
KEY_SCROLL_LOCK == "ScrollLock"

Keys ==
    {KEY_USE_BATTLEYE, KEY_TYPE_FILTER, KEY_MODE, KEY_REGION, KEY_BATTLEYE_REQUIRED,
     KEY_INCLUDE_INVALID, KEY_INCLUDE_PASSWORD_PROTECTED, KEY_INCLUDE_MODDED,
     KEY_SORT_CRITERIA, KEY_SCROLL_LOCK}

\* "auto", "always", "never"
BATTLEYE_AUTO == <<97, 117, 116, 111>>
BATTLEYE_ALWAYS == <<97, 108, 119, 97, 121, 115>>
BATTLEYE_NEVER == <<110, 101, 118, 101, 114>>

\* Ini::new()
Ini_new == [k \in Keys |-> <<>>]

\* str::to_ascii_lowercase: A-Z become a-z, every other character stays
to_ascii_lowercase(s) ==
    [i \in 1..Len(s) |-> IF s[i] >= 65 /\ s[i] <= 90 THEN s[i] + 32 ELSE s[i]]

\* char::is_whitespace: the code points with the Unicode White_Space property
White_Space ==
    (9..13) \cup {32, 133, 160, 5760} \cup (8192..8202) \cup {8232, 8233, 8239, 8287, 12288}

\* str::trim
RECURSIVE trim(_)
trim(s) ==
    IF s # <<>> /\ Head(s) \in White_Space THEN trim(Tail(s))
    ELSE IF s # <<>> /\ s[Len(s)] \in White_Space THEN trim(SubSeq(s, 1, Len(s) - 1))
    ELSE s

\* bool::to_string: "true", "false"
bool_to_string(b) == IF b THEN <<116, 114, 117, 101>> ELSE <<102, 97, 108, 115, 101>>

\* bool::from_str(..).ok()
bool_from_str(s) ==
    IF s = <<116, 114, 117, 101>> THEN <<TRUE>>
    ELSE IF s = <<102, 97, 108, 115, 101>> THEN <<FALSE>>
    ELSE <<>>

\* section.get(key).and_then(|s| bool::from_str(&s.to_ascii_lowercase()).ok())
get_bool(file, key) ==
    IF file[key] = <<>> THEN <<>> ELSE bool_from_str(to_ascii_lowercase(file[key][1]))

\* Option::unwrap_or
unwrap_or(opt, default) == IF opt = <<>> THEN default ELSE opt[1]

\* SortKey::as_ref: "Name", "Map", "Mode", "Region"
SortKey_as_ref(key) ==
    CASE key = "Name" -> <<78, 97, 109, 101>>
      [] key = "Map" -> <<77, 97, 112>>
      [] key = "Mode" -> <<77, 111, 100, 101>>
      [] key = "Region" -> <<82, 101, 103, 105, 111, 110>>

\* SortKey::from_str(..).ok().  SortKey::from_str is not part of the sources:
\* whether it accepts the text that as_ref gives a key is left open (accepted),
\* every other text is an Err.
SortKey_from_str(s, accepted) ==
    IF accepted /\ \E key \in SortKeys : SortKey_as_ref(key) = s
    THEN <<CHOOSE key \in SortKeys : SortKey_as_ref(key) = s>>
    ELSE <<>>

\* as_ref and from_str(..).ok() of TypeFilter, Mode and Region, which are not
\* part of the sources either: the text of a value is the pair of its type
\* and discriminant, and whether from_str accepts it is left open.
enum_as_ref(type, v) == <<type, v>>

enum_from_str(type, values, s, accepted) ==
    IF accepted /\ s \in {enum_as_ref(type, v) : v \in values} THEN <<s[2]>> ELSE <<>>

\* What the from_str calls of one load do with the texts as_ref wrote.
Accepted == [{KEY_TYPE_FILTER, KEY_MODE, KEY_REGION, KEY_SORT_CRITERIA} -> BOOLEAN]

TypeFilters == 0..1

SortCriteria_default == [key |-> "Name", ascending |-> TRUE]

\* #[derive(Default)] for ServerBrowserConfig
ServerBrowserConfig_default ==
    [type_filter |-> 0,
     mode |-> <<>>,
     region |-> <<>>,
     battleye_required |-> <<>>,
     include_invalid |-> FALSE,
     include_password_protected |-> FALSE,
     include_modded |-> FALSE,
     sort_criteria |-> SortCriteria_default,
     scroll_lock |-> FALSE]

\* BattlEyeUsage is "Auto", "Always(true)" or "Always(false)".
BattlEyeUsage_default == "Always(true)"

Config_default ==
    [use_battleye |-> BattlEyeUsage_default, server_browser |-> ServerBrowserConfig_default]

sort_criteria_to_string(criteria) ==
    (IF criteria.ascending THEN <<>> ELSE <<45>>) \o SortKey_as_ref(criteria.key)

\* The sort_criteria of load_server_browser_config: a leading '-' is cut off
\* and means descending, the rest is the key.
load_sort_criteria(file, accepted) ==
    IF file[KEY_SORT_CRITERIA] = <<>> THEN SortCriteria_default
    ELSE LET s == file[KEY_SORT_CRITERIA][1]
             ascending == ~(s # <<>> /\ Head(s) = 45)
             rest == IF ascending THEN s ELSE Tail(s)
             key == SortKey_from_str(rest, accepted[KEY_SORT_CRITERIA])
         IN  IF key = <<>> THEN SortCriteria_default
             ELSE [key |-> key[1], ascending |-> ascending]

load_server_browser_config(file, accepted) ==
    [type_filter |->
        unwrap_or(IF file[KEY_TYPE_FILTER] = <<>> THEN <<>>
                  ELSE enum_from_str("TypeFilter", TypeFilters, file[KEY_TYPE_FILTER][1],
                                accepted[KEY_TYPE_FILTER]), 0),
     mode |->
        IF file[KEY_MODE] = <<>> THEN <<>>
        ELSE enum_from_str("Mode", Modes, file[KEY_MODE][1], accepted[KEY_MODE]),
     region |->
        IF file[KEY_REGION] = <<>> THEN <<>>
        ELSE enum_from_str("Region", Regions, file[KEY_REGION][1], accepted[KEY_REGION]),
     battleye_required |-> get_bool(file, KEY_BATTLEYE_REQUIRED),
     include_invalid |-> unwrap_or(get_bool(file, KEY_INCLUDE_INVALID), FALSE),
     include_password_protected |->
        unwrap_or(get_bool(file, KEY_INCLUDE_PASSWORD_PROTECTED), FALSE),
     include_modded |-> unwrap_or(get_bool(file, KEY_INCLUDE_MODDED), FALSE),
     sort_criteria |-> load_sort_criteria(file, accepted),
     scroll_lock |-> unwrap_or(get_bool(file, KEY_SCROLL_LOCK), TRUE)]

save_server_browser_config(file, sb) ==
    [file EXCEPT
        ![KEY_TYPE_FILTER] = <<enum_as_ref("TypeFilter", sb.type_filter)>>,
        ![KEY_MODE] = IF sb.mode = <<>> THEN @ ELSE <<enum_as_ref("Mode", sb.mode[1])>>,
        ![KEY_REGION] = IF sb.region = <<>> THEN @ ELSE <<enum_as_ref("Region", sb.region[1])>>,
        ![KEY_BATTLEYE_REQUIRED] =
            IF sb.battleye_required = <<>> THEN @
            ELSE <<bool_to_string(sb.battleye_required[1])>>,
        ![KEY_INCLUDE_INVALID] = <<bool_to_string(sb.include_invalid)>>,
        ![KEY_INCLUDE_PASSWORD_PROTECTED] = <<bool_to_string(sb.include_password_protected)>>,
        ![KEY_INCLUDE_MODDED] = <<bool_to_string(sb.include_modded)>>,
        ![KEY_SORT_CRITERIA] = <<sort_criteria_to_string(sb.sort_criteria)>>,
        ![KEY_SCROLL_LOCK] = <<bool_to_string(sb.scroll_lock)>>]

\* IniConfigPersister::load
IniConfigPersister_load(file, accepted) ==
    [use_battleye |->
        IF file[KEY_USE_BATTLEYE] = <<>> THEN BattlEyeUsage_default
        ELSE LET value == to_ascii_lowercase(trim(file[KEY_USE_BATTLEYE][1]))
             IN  IF value = BATTLEYE_AUTO THEN "Auto"
                 ELSE IF value = BATTLEYE_ALWAYS THEN "Always(true)"
                 ELSE IF value = BATTLEYE_NEVER THEN "Always(false)"
                 ELSE BattlEyeUsage_default,
     server_browser |-> load_server_browser_config(file, accepted)]

\* TransientConfig::load
TransientConfig_load == Config_default

\* IniConfigPersister::save: the Ini that is written to the file
IniConfigPersister_save(c) ==
    save_server_browser_config(
        [Ini_new EXCEPT ![KEY_USE_BATTLEYE] =
            <<CASE c.use_battleye = "Auto" -> BATTLEYE_AUTO
                [] c.use_battleye = "Always(true)" -> BATTLEYE_ALWAYS
                [] c.use_battleye = "Always(false)" -> BATTLEYE_NEVER>>],
        c.server_browser)

(***************************************************************************)
(* List specification: views are derived from the base list and from each  *)
(* other by sorted() and filtered().                                       *)
(***************************************************************************)
\* No list has been built.
NoLists ==
    /\ servers = <<>>
    /\ views = <<>>
    /\ history = <<>>

\* No filter has been touched: Filter::default().
NoFilter ==
    /\ filter = Filter_default
    /\ given = [name |-> <<>>, map |-> <<>>]

\* No comparator call has been made.
NoCmp == call = <<>>

\* Nothing has been saved or loaded: no key in the file, Config::default().
NoConfig ==
    /\ ini = Ini_new
    /\ config = Config_default
    /\ fresh = FALSE

\* No refresh has been started.
NoQuery ==
    /\ phase = "Idle"
    /\ behaviour = <<>>
    /\ exchange = <<>>
    /\ delivered = <<>>
    /\ published = <<>>

\* No Game has been constructed.
NoGame ==
    /\ game_ini = <<>>
    /\ last_session = <<>>
    /\ reread = FALSE
    /\ last_call = <<>>
    /\ result = "None"
    /\ calls = 0
    /\ launched = 0
    /\ failed_saves = 0

\* No Steam installation has been located.
NoSteam == steam = <<>>

\* No update is being consolidated.
NoUpdate ==
    /\ this_update = <<>>
    /\ other_update = <<>>
    /\ consolidated = <<>>

Init ==
    /\ servers \in Lists
    /\ views = <<>>
    /\ history = <<>>
    /\ NoFilter
    /\ NoCmp
    /\ NoConfig
    /\ NoQuery
    /\ NoGame
    /\ NoSteam
    /\ NoUpdate

\* sorts the base list in place and hands out a view in source order
Sorted_mut(n, criteria) ==
    /\ Len(views) < MaxViews
    /\ servers' = [p \in 1..Len(servers) |->
                      servers[sort_unstable_by(Range0(Len(servers)), 0, criteria)[p] + 1]]
    /\ views' = Append(views, [source |-> n, indices |-> Range0(len(n))])
    /\ history' = Append(history, [op |-> "sorted", criteria |-> criteria,
                                   filter |-> Filter_default])
    /\ UNCHANGED outsideLists

\* ServerList::sorted on list n
Sorted(n, criteria) ==
    /\ Len(views) < MaxViews
    /\ views' = Append(views, sorted_from(n, criteria))
    /\ history' = Append(history, [op |-> "sorted", criteria |-> criteria,
                                   filter |-> Filter_default])
    /\ UNCHANGED <<servers, outsideLists>>

\* ServerList::filtered on list n
Filtered(n, f) ==
    /\ Len(views) < MaxViews
    /\ views' = Append(views, filtered_from(n, f))
    /\ history' = Append(history, [op |-> "filtered", criteria |-> [key |-> "Name", ascending |-> TRUE],
                                   filter |-> f])
    /\ UNCHANGED <<servers, outsideLists>>

SortedStep == \E n \in 0..Len(views), criteria \in SortCriterias : Sorted(n, criteria)

FilteredStep == \E n \in 0..Len(views), f \in ListFilters : Filtered(n, f)

Next ==
    \/ SortedStep
    \/ FilteredStep

Spec == Init /\ [][Next]_vars

(***************************************************************************)
(* Inputs of the filter specification.                                     *)
(***************************************************************************)
\* set_name is given texts of 'a' and '.', names are texts of 'A' and '.';
\* set_map is given "", "B" or ".", maps are "b" and "A.".
PatternAlphabet == {97, 46}
NameAlphabet == {65, 46}

Patterns == Strs(PatternAlphabet, MaxPatLen)
Names == Strs(NameAlphabet, MaxNameLen)
MapPatterns == {<<>>, <<66>>, <<46>>}
Maps == {<<98>>, <<65, 46>>}

\* Every record a filter may be asked about.
ServerUniverse ==
    [id : {1}, name : Names, map : Maps, mode : Modes, region : Regions,
     build_id : Builds, password_protected : BOOLEAN]

(***************************************************************************)
(* Filter specification: a Filter is built from Filter::default() by its   *)
(* setters.                                                                *)
(***************************************************************************)
InitFilter ==
    /\ NoLists
    /\ NoFilter
    /\ NoCmp
    /\ NoConfig
    /\ NoQuery
    /\ NoGame
    /\ NoSteam
    /\ NoUpdate

SetName ==
    /\ \E p \in Patterns :
        /\ filter' = set_name(filter, p)
        /\ given' = [given EXCEPT !.name = p]
    /\ UNCHANGED outsideFilter

SetMap ==
    /\ \E p \in MapPatterns :
        /\ filter' = set_map(filter, p)
        /\ given' = [given EXCEPT !.map = p]
    /\ UNCHANGED outsideFilter

SetMode ==
    /\ \E m \in Option(Modes) : filter' = set_mode(filter, m)
    /\ UNCHANGED <<given, outsideFilter>>

SetRegion ==
    /\ \E r \in Option(Regions) : filter' = set_region(filter, r)
    /\ UNCHANGED <<given, outsideFilter>>

SetBuildId ==
    /\ \E b \in Option(Builds) : filter' = set_build_id(filter, b)
    /\ UNCHANGED <<given, outsideFilter>>

SetPasswordProtected ==
    /\ \E b \in BOOLEAN : filter' = set_password_protected(filter, b)
    /\ UNCHANGED <<given, outsideFilter>>

NextFilter ==
    \/ SetName
    \/ SetMap
    \/ SetMode
    \/ SetRegion
    \/ SetBuildId
    \/ SetPasswordProtected

SpecFilter == InitFilter /\ [][NextFilter]_vars

(***************************************************************************)
(* Comparator specification: the comparator of a SortCriteria is called on *)
(* two records, in both orders.  The records may share an id or not.       *)
(***************************************************************************)
CmpRecords ==
    [id : 1..2, name : {<<97>>, <<65>>, <<97, 98>>}, map : {<<97>>, <<98>>},
     mode : Modes, region : Regions, build_id : {100}, password_protected : {FALSE}]

InitCmp ==
    /\ NoLists
    /\ NoFilter
    /\ call \in [criteria : SortCriterias, lhs : CmpRecords, rhs : CmpRecords,
                 ordering : {<<>>}, swapped : {<<>>}]
    /\ NoConfig
    /\ NoQuery
    /\ NoGame
    /\ NoSteam
    /\ NoUpdate

\* comparator(&lhs, &rhs) and comparator(&rhs, &lhs)
Compare ==
    /\ call.ordering = <<>>
    /\ call' = [call EXCEPT !.ordering = <<comparator(call.criteria, call.lhs, call.rhs)>>,
                          !.swapped = <<comparator(call.criteria, call.rhs, call.lhs)>>]
    /\ UNCHANGED outsideCmp

NextCmp == Compare

SpecCmp == InitCmp /\ [][NextCmp]_vars

(***************************************************************************)
(* Config specification: the file starts without keys, the Config starts   *)
(* as Config::default(); the user changes one setting at a time, and the    *)
(* Config is saved to the file and loaded from it.                          *)
(***************************************************************************)
\* The values the user gives a setting.
Settings ==
    [use_battleye |-> {"Auto", "Always(true)", "Always(false)"},
     type_filter |-> TypeFilters,
     mode |-> Option(Modes),
     region |-> Option(Regions),
     battleye_required |-> Option(BOOLEAN),
     include_invalid |-> BOOLEAN,
     include_password_protected |-> BOOLEAN,
     include_modded |-> BOOLEAN,
     sort_criteria |-> SortCriterias,
     scroll_lock |-> BOOLEAN]

InitConfig ==
    /\ NoLists
    /\ NoFilter
    /\ NoCmp
    /\ NoConfig
    /\ NoQuery
    /\ NoGame
    /\ NoSteam
    /\ NoUpdate

\* The settings of a Config, one after the other.
FieldsOf(c) ==
    <<c.use_battleye,
      c.server_browser.type_filter,
      c.server_browser.mode,
      c.server_browser.region,
      c.server_browser.battleye_required,
      c.server_browser.include_invalid,
      c.server_browser.include_password_protected,
      c.server_browser.include_modded,
      c.server_browser.sort_criteria,
      c.server_browser.scroll_lock>>

\* How many settings of c are not the default.
Changed(c) ==
    Cardinality({i \in DOMAIN FieldsOf(c) : FieldsOf(c)[i] # FieldsOf(Config_default)[i]})

\* The user changes the Config to c; the model follows Configs with up to
\* MaxChanged settings off their default.
Configure(c) ==
    /\ Changed(c) <= MaxChanged
    /\ config' = c
    /\ fresh' = FALSE
    /\ UNCHANGED <<ini, outsideConfig>>

\* The BattlEye usage is changed.
SetUseBattlEye ==
    \E usage \in Settings.use_battleye : Configure([config EXCEPT !.use_battleye = usage])

\* The type filter of the server browser is changed.
SetTypeFilter ==
    \E type \in Settings.type_filter :
        Configure([config EXCEPT !.server_browser.type_filter = type])

\* The mode filter of the server browser is changed or cleared.
SetBrowserMode ==
    \E m \in Settings.mode : Configure([config EXCEPT !.server_browser.mode = m])

\* The region filter of the server browser is changed or cleared.
SetBrowserRegion ==
    \E region \in Settings.region : Configure([config EXCEPT !.server_browser.region = region])

\* The BattlEye filter of the server browser is changed or cleared.
SetBattlEyeRequired ==
    \E required \in Settings.battleye_required :
        Configure([config EXCEPT !.server_browser.battleye_required = required])

\* The include flags of the server browser are switched.
SetIncludeInvalid ==
    \E b \in Settings.include_invalid :
        Configure([config EXCEPT !.server_browser.include_invalid = b])

SetIncludePasswordProtected ==
    \E b \in Settings.include_password_protected :
        Configure([config EXCEPT !.server_browser.include_password_protected = b])

SetIncludeModded ==
    \E b \in Settings.include_modded :
        Configure([config EXCEPT !.server_browser.include_modded = b])

\* The sort order of the server browser is changed.
SetSortCriteria ==
    \E criteria \in Settings.sort_criteria :
        Configure([config EXCEPT !.server_browser.sort_criteria = criteria])

\* The scroll lock of the server browser is switched.
SetScrollLock ==
    \E b \in Settings.scroll_lock : Configure([config EXCEPT !.server_browser.scroll_lock = b])

\* The outcomes of save_ini: the file is written, it cannot be opened for
\* writing, or the write fails after the file was emptied.
SaveOutcomes == {"Ok", "CreateError", "WriteError"}

\* The outcomes of load_ini: the file is read and parsed, or it is not.
LoadOutcomes == {"Ok", "LoadError"}

\* The order in which save writes the keys.
WriteOrder ==
    <<KEY_USE_BATTLEYE, KEY_TYPE_FILTER, KEY_MODE, KEY_REGION, KEY_BATTLEYE_REQUIRED,
      KEY_INCLUDE_INVALID, KEY_INCLUDE_PASSWORD_PROTECTED, KEY_INCLUDE_MODDED,
      KEY_SORT_CRITERIA, KEY_SCROLL_LOCK>>

\* A file that load_ini cannot parse: the write stopped inside the section
\* header or inside the name of a key.
Ini_unparseable == [k \in {"ParseError"} |-> <<>>]

\* The file after a write that stopped in the value of the n-th key of
\* WriteOrder, of which m characters had reached the file.
truncated(file, n, m) ==
    [k \in Keys |->
        IF \E i \in 1..(n - 1) : WriteOrder[i] = k THEN file[k]
        ELSE IF WriteOrder[n] = k THEN <<SubSeq(file[k][1], 1, m)>>
        ELSE <<>>]

\* The files a write of file that returns Err can leave: the write stopped
\* at any byte (before the first key, in the value of a key or at its end,
\* inside a header or the name of a key), or the whole file was written.
left_by_failed_write(file) ==
    {Ini_new, Ini_unparseable, file}
        \cup UNION {{truncated(file, n, m) : m \in 0..Len(file[WriteOrder[n]][1])} :
                        n \in {i \in DOMAIN WriteOrder : file[WriteOrder[i]] # <<>>}}

\* ConfigPersister::save.  A save that fails returns Err: the file is left as
\* it was when it could not be opened, and otherwise holds whatever had
\* been written.
Save ==
    \E io \in SaveOutcomes :
        /\ io = "Ok" => ini' = IniConfigPersister_save(config)
        /\ io = "CreateError" => ini' = ini
        /\ io = "WriteError" => ini' \in left_by_failed_write(IniConfigPersister_save(config))
        /\ fresh' = (fresh /\ ini' = ini)
        /\ UNCHANGED <<config, outsideConfig>>

\* ConfigPersister::load.  A load that fails returns Err and no Config; a
\* file that cannot be parsed always fails.
Load ==
    \E io \in LoadOutcomes, accepted \in Accepted :
        /\ io = "Ok" =>
            /\ ini # Ini_unparseable
            /\ config' = IniConfigPersister_load(ini, accepted)
            /\ fresh' = TRUE
        /\ io = "LoadError" =>
            /\ config' = config
            /\ fresh' = FALSE
        /\ UNCHANGED <<ini, outsideConfig>>

NextConfig ==
    \/ SetUseBattlEye
    \/ SetTypeFilter
    \/ SetBrowserMode
    \/ SetBrowserRegion
    \/ SetBattlEyeRequired
    \/ SetIncludeInvalid
    \/ SetIncludePasswordProtected
    \/ SetIncludeModded
    \/ SetSortCriteria
    \/ SetScrollLock
    \/ Save
    \/ Load

SpecConfig == InitConfig /\ [][NextConfig]_vars

(***************************************************************************)
(* Refresh specification: the Master List Fetcher and the Query Client of  *)
(* servers/net.rs, which is not part of the sources; they are modelled     *)
(* from sections 4.4, 4.5 and 5 of the specification.  A refresh fetches   *)
(* the addresses, then exchanges one status request with each of them, at  *)
(* most Cap at a time, and delivers one record update per address.         *)
(***************************************************************************)
Addrs == 1..NumAddrs

\* The build of the local game installation.
LocalBuild == 100

\* A server answers with its build, never answers, or answers with a
\* datagram that does not decode or does not match the request.
Behaviours ==
    {[kind |-> "Response", build |-> b] : b \in Builds}
        \cup {[kind |-> "Silent"], [kind |-> "Malformed"]}

\* Validity of the record of a server that answered with a build.
classify(build) == IF build = LocalBuild THEN "Valid" ELSE "Outdated"

InFlight == {a \in DOMAIN exchange : exchange[a].state = "inflight"}

\* delivers for an abandoned exchange as well
Deliverable_mut(a) ==
    a \in DOMAIN exchange /\ exchange[a].state \in {"inflight", "abandoned"}

\* The exchange with a is waiting for its response and may still deliver.
Deliverable(a) == phase = "Querying" /\ a \in InFlight

\* The update of the record of a that the caller receives.
deliver(a, validity) == Append(delivered, [addr |-> a, validity |-> validity])

\* drops the address
give_up_mut(a) == delivered

\* Giving up on a for this round demotes its record instead of dropping it.
give_up(a) == deliver(a, "Invalid")

\* The records of the staging sequence: created Invalid by the fetcher and
\* updated by what was delivered for their address.
aggregate ==
    [a \in DOMAIN exchange |->
        IF \E i \in 1..Len(delivered) : delivered[i].addr = a
        THEN delivered[CHOOSE i \in 1..Len(delivered) : delivered[i].addr = a].validity
        ELSE "Invalid"]

\* What is published when a refresh starts: nothing yet, or the list of an
\* earlier refresh.
PreviousLists == {<<>>, [a \in Addrs |-> "Valid"]}

\* The ServerList built from the published records: one record per address,
\* in the order of the addresses, with the build the server reported (0 while
\* the status fields are absent) and the validity of the record.
published_list ==
    [a \in 1..Len(published) |->
        [id |-> a,
         name |-> <<>>,
         map |-> <<>>,
         mode |-> 0,
         region |-> 0,
         build_id |-> IF behaviour[a].kind = "Response" THEN behaviour[a].build ELSE 0,
         password_protected |-> FALSE,
         validity |-> published[a]]]

\* The server browser's view of a list: the records the Filter matches,
\* without those that are not Valid unless include_invalid is set.
browser_view(list, sb, f) ==
    SelectSeq(Range0(Len(list)),
              LAMBDA idx : /\ matches(f, list[idx + 1])
                           /\ sb.include_invalid \/ list[idx + 1].validity = "Valid")

InitQuery ==
    /\ NoLists
    /\ NoFilter
    /\ NoCmp
    /\ NoConfig
    /\ NoGame
    /\ NoSteam
    /\ NoUpdate
    /\ phase = "Fetching"
    /\ behaviour \in [Addrs -> Behaviours]
    /\ exchange = <<>>
    /\ delivered = <<>>
    /\ published \in PreviousLists

\* fetch() returns the addresses: the Query Client is handed all of them.
FetchOk ==
    /\ phase = "Fetching"
    /\ phase' = "Querying"
    /\ exchange' = [a \in Addrs |-> [state |-> "queued", sent |-> FALSE, retries |-> 0]]
    /\ UNCHANGED <<behaviour, delivered, published, outsideQuery>>

\* publishes the part of the master list that was read
FetchErr_mut ==
    /\ phase = "Fetching"
    /\ phase' = "Failed"
    /\ published' = [a \in {1} |-> "Invalid"]
    /\ UNCHANGED <<behaviour, exchange, delivered, outsideQuery>>

\* fetch() returns a FetchError: the refresh fails as a whole.
FetchErr ==
    /\ phase = "Fetching"
    /\ phase' = "Failed"
    /\ UNCHANGED <<behaviour, exchange, delivered, published, outsideQuery>>

\* sends without waiting for a free slot
Send_mut(a) ==
    /\ phase = "Querying"
    /\ exchange[a].state = "queued"
    /\ exchange' = [exchange EXCEPT ![a].state = "inflight", ![a].sent = TRUE]
    /\ UNCHANGED <<phase, behaviour, delivered, published, outsideQuery>>

\* The request to a is sent once one of the Cap slots is free.
Send(a) ==
    /\ phase = "Querying"
    /\ exchange[a].state = "queued"
    /\ Cardinality(InFlight) < Cap
    /\ exchange' = [exchange EXCEPT ![a].state = "inflight", ![a].sent = TRUE]
    /\ UNCHANGED <<phase, behaviour, delivered, published, outsideQuery>>

\* The matching response of a arrives within the wait.
Respond(a) ==
    /\ Deliverable(a)
    /\ behaviour[a].kind = "Response"
    /\ delivered' = deliver(a, classify(behaviour[a].build))
    /\ exchange' = [exchange EXCEPT ![a].state = "done"]
    /\ UNCHANGED <<phase, behaviour, published, outsideQuery>>

\* retries once more than MaxRetries
retry_or_give_up_mut(a) ==
    IF exchange[a].retries < MaxRetries + 1
    THEN /\ exchange' = [exchange EXCEPT ![a].retries = @ + 1]
         /\ delivered' = delivered
    ELSE /\ exchange' = [exchange EXCEPT ![a].state = "done"]
         /\ delivered' = give_up(a)

\* An attempt of the exchange with a failed: the request is sent again, or,
\* after MaxRetries retries, a is given up for this round.
retry_or_give_up(a) ==
    IF exchange[a].retries < MaxRetries
    THEN /\ exchange' = [exchange EXCEPT ![a].retries = @ + 1]
         /\ delivered' = delivered
    ELSE /\ exchange' = [exchange EXCEPT ![a].state = "done"]
         /\ delivered' = give_up(a)

\* The wait for the response of a runs out.
Timeout(a) ==
    /\ Deliverable(a)
    /\ behaviour[a].kind = "Silent"
    /\ retry_or_give_up(a)
    /\ UNCHANGED <<phase, behaviour, published, outsideQuery>>

\* A malformed or mismatched response of a arrives: as a timeout.
Malformed(a) ==
    /\ Deliverable(a)
    /\ behaviour[a].kind = "Malformed"
    /\ retry_or_give_up(a)
    /\ UNCHANGED <<phase, behaviour, published, outsideQuery>>

\* Every exchange has ended: the batch finishes.
Complete ==
    /\ phase = "Querying"
    /\ \A a \in DOMAIN exchange : exchange[a].state = "done"
    /\ phase' = "Completed"
    /\ published' = aggregate
    /\ UNCHANGED <<behaviour, exchange, delivered, outsideQuery>>

\* The caller cancels the refresh: the exchanges that have not ended are
\* abandoned, and the cancellation is acknowledged without waiting for them.
Cancel ==
    /\ phase = "Querying"
    /\ phase' = "Cancelled"
    /\ exchange' = [a \in DOMAIN exchange |->
                       IF exchange[a].state = "done" THEN exchange[a]
                       ELSE [exchange[a] EXCEPT !.state = "abandoned"]]
    /\ UNCHANGED <<behaviour, delivered, published, outsideQuery>>

NextQuery ==
    \/ FetchOk
    \/ FetchErr
    \/ \E a \in DOMAIN exchange : Send(a)
    \/ \E a \in DOMAIN exchange : Respond(a)
    \/ \E a \in DOMAIN exchange : Timeout(a)
    \/ \E a \in DOMAIN exchange : Malformed(a)
    \/ Complete
    \/ Cancel

SpecQuery == InitQuery /\ [][NextQuery]_vars

\* The steps the Query Client takes by itself: its tasks and timers keep
\* running while the refresh is neither finished nor cancelled.
Progress ==
    \/ \E a \in DOMAIN exchange : Send(a) \/ Respond(a) \/ Timeout(a) \/ Malformed(a)
    \/ Complete

SpecQueryFair == SpecQuery /\ WF_vars(Progress)

(***************************************************************************)
(* Game specification: the last session in Game.ini, src/src/game/mod.rs.  *)
(* Game.ini is its sections in the order of the file, each with its keys   *)
(* and values in the order of the file.  The maps of                       *)
(* the installation (game/engine/map.rs, not part of the sources) are two  *)
(* maps with different asset paths.                                        *)
(***************************************************************************)
KEY_SERVERS_LIST == "ServersList"
KEY_LAST_CONNECTED == "LastConnected"
KEY_STARTED_LISTEN_SERVER_SESSION == "StartedListenServerSession"
KEY_LAST_MAP == "LastMap"
KEY_WAS_COOP_ENABLED == "WasCoopEnabled"

SECTION_FAVORITE_SERVERS == "FavoriteServers"
SECTION_SAVED_SERVERS == "SavedServers"
SECTION_SAVED_COOP_DATA == "SavedCoopData"

\* Ini::section: the position of the first section of that name, 0 for None
Ini_section(file, name) ==
    IF \E i \in DOMAIN file : file[i].name = name
    THEN CHOOSE i \in DOMAIN file :
            /\ file[i].name = name
            /\ \A j \in 1..(i - 1) : file[j].name # name
    ELSE 0

\* Properties::get: the first value of the key
Properties_get(props, key) ==
    IF \E i \in DOMAIN props : props[i].key = key
    THEN <<props[CHOOSE i \in DOMAIN props :
                    /\ props[i].key = key
                    /\ \A j \in 1..(i - 1) : props[j].key # key].value>>
    ELSE <<>>

\* ini.section(Some(name)).and_then(|section| section.get(key))
Ini_get(file, name, key) ==
    IF Ini_section(file, name) = 0 THEN <<>>
    ELSE Properties_get(file[Ini_section(file, name)].props, key)

\* Properties::remove_all
Properties_remove_all(props, key) == SelectSeq(props, LAMBDA p : p.key # key)

\* Properties::append: one more value for the key, at the end
Properties_append(props, key, value) == Append(props, [key |-> key, value |-> value])

\* Properties::insert: a key of the section keeps the place of its first
\* value and has the new value only; a new key goes to the end.
Properties_insert(props, key, value) ==
    IF Properties_get(props, key) = <<>> THEN Properties_append(props, key, value)
    ELSE LET first == CHOOSE i \in DOMAIN props :
                        /\ props[i].key = key
                        /\ \A j \in 1..(i - 1) : props[j].key # key
         IN  SubSeq(props, 1, first - 1)
                \o <<[key |-> key, value |-> value]>>
                \o Properties_remove_all(SubSeq(props, first + 1, Len(props)), key)

\* Ini::entry(name).or_insert_with(Properties::new): a new section goes to
\* the end of the file.
Ini_entry(file, name) ==
    IF Ini_section(file, name) = 0 THEN Append(file, [name |-> name, props |-> <<>>]) ELSE file

\* ini.with_section(Some(name)).set(key, value)
Ini_set(file, name, key, value) ==
    LET with_section == Ini_entry(file, name)
    IN  [with_section EXCEPT ![Ini_section(with_section, name)].props =
            Properties_insert(@, key, value)]

\* A Game.ini without content.
GameIni_empty == <<>>

\* A Game.ini that load_ini cannot parse: the write stopped inside a section
\* header or inside the name of a key.
GameIni_unparseable == <<[name |-> "ParseError", props |-> <<>>]>>

\* The file after a write that stopped in section s: right after its header
\* (k = 0), or in the value of its k-th key, of which m characters had
\* reached the file.  save_ini writes the file in place, section by section
\* and key by key.
partly_written(file, s, k, m) ==
    SubSeq(file, 1, s - 1)
        \o <<[name |-> file[s].name,
              props |->
                IF k = 0 THEN <<>>
                ELSE SubSeq(file[s].props, 1, k - 1)
                        \o <<[key |-> file[s].props[k].key,
                              value |-> SubSeq(file[s].props[k].value, 1, m)]>>]>>

\* What a save of file that returns Err leaves where before was: the file
\* as it was (it could not be opened), the new content cut at any byte
\* (nothing, a section header without keys, a value that is cut or whole, a
\* file that no longer parses), or the whole new content.
left_by_failed_save(before, file) ==
    {before, GameIni_empty, GameIni_unparseable, file}
        \cup {partly_written(file, s, 0, 0) : s \in DOMAIN file}
        \cup UNION {UNION {{partly_written(file, s, k, m) :
                                m \in 0..Len(file[s].props[k].value)} :
                            k \in DOMAIN file[s].props} :
                    s \in DOMAIN file}

\* "True", "False" as the code and the game write them
TextTrue == <<84, 114, 117, 101>>
TextFalse == <<70, 97, 108, 115, 101>>

\* SocketAddr: the four octets of an IPv4 address and a port.
SocketAddrs == {[ip |-> <<1, 0, 0, 1>>, port |-> 7], [ip |-> <<2, 0, 0, 2>>, port |-> 78]}

\* u8::to_string, u16::to_string: the decimal digits
RECURSIVE decimal(_)
decimal(n) == IF n < 10 THEN <<48 + n>> ELSE decimal(n \div 10) \o <<48 + (n % 10)>>

\* SocketAddr::to_string: "<a>.<b>.<c>.<d>:<port>"
SocketAddr_to_string(addr) ==
    decimal(addr.ip[1]) \o <<46>> \o decimal(addr.ip[2]) \o <<46>> \o decimal(addr.ip[3])
        \o <<46>> \o decimal(addr.ip[4]) \o <<58>> \o decimal(addr.port)

\* The parts of s between the occurrences of sep.
RECURSIVE split(_, _)
split(s, sep) ==
    IF \A i \in DOMAIN s : s[i] # sep THEN <<s>>
    ELSE LET first == CHOOSE i \in DOMAIN s : s[i] = sep /\ \A j \in 1..(i - 1) : s[j] # sep
         IN  <<SubSeq(s, 1, first - 1)>> \o split(SubSeq(s, first + 1, Len(s)), sep)

\* The number a text of decimal digits stands for.
RECURSIVE number(_)
number(s) ==
    IF s = <<>> THEN 0 ELSE 10 * number(SubSeq(s, 1, Len(s) - 1)) + (s[Len(s)] - 48)

is_digits(s) == s # <<>> /\ \A i \in DOMAIN s : s[i] \in 48..57

\* An octet of an IPv4 address: up to three digits without a leading zero,
\* at most 255.
octet_from_str(s) ==
    IF is_digits(s) /\ Len(s) <= 3 /\ (Len(s) = 1 \/ s[1] # 48) /\ number(s) <= 255
    THEN <<number(s)>>
    ELSE <<>>

\* A port: digits, at most 65535.
port_from_str(s) == IF is_digits(s) /\ number(s) <= 65535 THEN <<number(s)>> ELSE <<>>

\* SocketAddr::from_str(..).ok() of a text without '[': an IPv4 address, ':'
\* and a port, and nothing else.
SocketAddr_from_str(s) ==
    LET parts == split(s, 58)
        octets == split(parts[1], 46)
    IN  IF /\ Len(parts) = 2
           /\ Len(octets) = 4
           /\ \A i \in 1..4 : octet_from_str(octets[i]) # <<>>
           /\ port_from_str(parts[2]) # <<>>
        THEN <<[ip |-> [i \in 1..4 |-> octet_from_str(octets[i])[1]],
                port |-> port_from_str(parts[2])[1]]>>
        ELSE <<>>

\* Maps: the maps of the installation, indexed by id.
GameMaps ==
    <<[id |-> 0, asset_path |-> <<47, 97>>],
      [id |-> 1, asset_path |-> <<47, 98>>]>>

MapIds == {GameMaps[i].id : i \in DOMAIN GameMaps}

\* maps[map_id]
map_at(map_id) == GameMaps[map_id + 1]

\* Maps::by_asset_path
by_asset_path(asset_path) ==
    IF \E i \in DOMAIN GameMaps : GameMaps[i].asset_path = asset_path
    THEN <<GameMaps[CHOOSE i \in DOMAIN GameMaps : GameMaps[i].asset_path = asset_path]>>
    ELSE <<>>

\* section.get(key).map(|val| val.to_ascii_lowercase() == "true").unwrap_or(true)
get_flag(file, key) ==
    IF Ini_get(file, SECTION_SAVED_COOP_DATA, key) = <<>> THEN TRUE
    ELSE to_ascii_lowercase(Ini_get(file, SECTION_SAVED_COOP_DATA, key)[1]) = <<116, 114, 117, 101>>

\* The last session Game::new reads from a Game.ini that exists and parses.
read_last_session(file) ==
    LET is_local == get_flag(file, KEY_STARTED_LISTEN_SERVER_SESSION)
        is_coop == get_flag(file, KEY_WAS_COOP_ENABLED)
        local_map == Ini_get(file, SECTION_SAVED_COOP_DATA, KEY_LAST_MAP)
        last_connected == Ini_get(file, SECTION_SAVED_SERVERS, KEY_LAST_CONNECTED)
        server_addr ==
            IF last_connected = <<>> THEN <<>> ELSE SocketAddr_from_str(last_connected[1])
        map_ref ==
            IF by_asset_path(local_map[1]) # <<>>
            THEN [kind |-> "Known", map_id |-> by_asset_path(local_map[1])[1].id]
            ELSE [kind |-> "Unknown", asset_path |-> local_map[1]]
    IN  IF is_local
        THEN IF local_map = <<>> THEN <<>>
             ELSE IF is_coop THEN <<[kind |-> "CoOp", map |-> map_ref]>>
             ELSE <<[kind |-> "SinglePlayer", map |-> map_ref]>>
        ELSE IF server_addr = <<>> THEN <<>>
             ELSE <<[kind |-> "Online", server |-> [kind |-> "Unknown", addr |-> server_addr[1]]]>>

\* Game::new: the last session, None without a Game.ini.
Game_new_last_session == IF game_ini = <<>> THEN <<>> ELSE read_last_session(game_ini[1])

\* leaves StartedListenServerSession as it is
join_server_ini_mut(file, addr) ==
    Ini_set(file, SECTION_SAVED_SERVERS, KEY_LAST_CONNECTED, SocketAddr_to_string(addr))

\* The keys join_server sets.
join_server_ini(file, addr) ==
    Ini_set(Ini_set(file, SECTION_SAVED_SERVERS, KEY_LAST_CONNECTED, SocketAddr_to_string(addr)),
            SECTION_SAVED_COOP_DATA, KEY_STARTED_LISTEN_SERVER_SESSION, TextFalse)

\* The keys launch_single_player sets.
launch_single_player_ini(file, map_id) ==
    Ini_set(Ini_set(Ini_set(file, SECTION_SAVED_COOP_DATA, KEY_LAST_MAP, map_at(map_id).asset_path),
                    SECTION_SAVED_COOP_DATA, KEY_STARTED_LISTEN_SERVER_SESSION, TextTrue),
            SECTION_SAVED_COOP_DATA, KEY_WAS_COOP_ENABLED, TextFalse)

\* What the file system and the process launch do during a call.
Outcomes == {"Ok", "LoadError", "SaveError", "LaunchError"}

\* goes on after a failed save
reaches_continue_session_mut(io) == io # "LoadError"

\* load_ini(..)? and save_ini(..)? return their error: continue_session is
\* reached only after both have succeeded.
reaches_continue_session(io) == io \notin {"LoadError", "SaveError"}

\* Game.ini as the game left it after a co-op session on the first map.
GameIni_coop ==
    <<[name |-> SECTION_SAVED_COOP_DATA,
       props |-> <<[key |-> KEY_LAST_MAP, value |-> map_at(0).asset_path],
                   [key |-> KEY_STARTED_LISTEN_SERVER_SESSION, value |-> TextTrue],
                   [key |-> KEY_WAS_COOP_ENABLED, value |-> TextTrue]>>]>>

InitGame ==
    /\ NoLists
    /\ NoFilter
    /\ NoCmp
    /\ NoConfig
    /\ NoQuery
    /\ NoSteam
    /\ NoUpdate
    /\ game_ini \in {<<>>, <<GameIni_empty>>, <<GameIni_coop>>}
    /\ last_session = Game_new_last_session
    /\ reread = TRUE
    /\ last_call = <<>>
    /\ result = "None"
    /\ calls = 0
    /\ launched = 0
    /\ failed_saves = 0

\* load_ini returns Err for a Game.ini that does not exist or does not
\* parse, and may fail to read any other.
load_fails(io) == game_ini = <<>> \/ game_ini[1] = GameIni_unparseable \/ io = "LoadError"

\* A call that loads Game.ini, sets keys, saves it and continues the session.
\* A call that panics after the load leaves everything as it is; a failed
\* save leaves the file as it was, cut, or with the whole new content.  The
\* model follows up to MaxFailedSaves saves that fail.
Call(call_made, new_ini, io, panics) ==
    /\ calls < MaxCalls
    /\ calls' = calls + 1
    /\ io = "SaveError" => failed_saves < MaxFailedSaves
    /\ failed_saves' =
        IF ~load_fails(io) /\ ~panics /\ io = "SaveError" THEN failed_saves + 1
        ELSE failed_saves
    /\ reread' = FALSE
    /\ IF load_fails(io)
       THEN /\ result' = "LoadError"
            /\ UNCHANGED <<game_ini, last_call>>
       ELSE IF panics
       THEN /\ result' = "Panic"
            /\ UNCHANGED <<game_ini, last_call>>
       ELSE IF io = "SaveError"
       THEN /\ result' = "SaveError"
            /\ \E left \in left_by_failed_save(game_ini[1], new_ini) :
                /\ game_ini' = <<left>>
                /\ last_call' = IF left = game_ini[1] THEN last_call ELSE <<>>
       ELSE /\ result' = io
            /\ game_ini' = <<new_ini>>
            /\ last_call' = <<call_made>>
    /\ launched' =
        IF ~load_fails(io) /\ ~panics /\ reaches_continue_session(io) /\ io # "LaunchError"
        THEN launched + 1
        ELSE launched
    /\ UNCHANGED <<last_session, outsideGame>>

\* Game::join_server
JoinServer ==
    \E addr \in SocketAddrs, io \in Outcomes :
        Call([op |-> "join_server", addr |-> addr],
             IF game_ini = <<>> THEN GameIni_empty ELSE join_server_ini(game_ini[1], addr),
             io,
             FALSE)

\* Game::launch_single_player: self.maps[map_id] panics for an id that is
\* not the id of a map.
LaunchSinglePlayer ==
    \E map_id \in 0..Len(GameMaps), io \in Outcomes :
        Call([op |-> "launch_single_player", map_id |-> map_id],
             IF game_ini = <<>> \/ map_id \notin MapIds THEN GameIni_empty
             ELSE launch_single_player_ini(game_ini[1], map_id),
             io,
             map_id \notin MapIds)

\* The favorites save_favorites is given, as FavoriteServer::to_string
\* writes them.
FavoriteLists == {<<>>, <<(<<102, 49>>), (<<102, 50>>)>>}

\* The ServersList values save_favorites sets: the old ones are removed and
\* one is appended for each favorite.
RECURSIVE append_all(_, _, _)
append_all(props, key, values) ==
    IF values = <<>> THEN props
    ELSE append_all(Properties_append(props, key, Head(values)), key, Tail(values))

save_favorites_ini(file, favorites) ==
    LET with_section == Ini_entry(file, SECTION_FAVORITE_SERVERS)
    IN  [with_section EXCEPT ![Ini_section(with_section, SECTION_FAVORITE_SERVERS)].props =
            append_all(Properties_remove_all(@, KEY_SERVERS_LIST), KEY_SERVERS_LIST, favorites)]

\* Game::save_favorites: loads Game.ini, replaces the favorites and saves
\* it; a failed save leaves the file as it was, cut, or with the whole new
\* content.
SaveFavorites ==
    \E favorites \in FavoriteLists, io \in {"Ok", "LoadError", "SaveError"} :
        /\ io = "SaveError" => failed_saves < MaxFailedSaves
        /\ failed_saves' =
            IF ~load_fails(io) /\ io = "SaveError" THEN failed_saves + 1 ELSE failed_saves
        /\ IF load_fails(io)
           THEN UNCHANGED <<game_ini, last_call>>
           ELSE IF io = "SaveError"
           THEN \E left \in left_by_failed_save(game_ini[1],
                                                  save_favorites_ini(game_ini[1], favorites)) :
                    /\ game_ini' = <<left>>
                    /\ last_call' = IF left = game_ini[1] THEN last_call ELSE <<>>
           ELSE /\ game_ini' = <<save_favorites_ini(game_ini[1], favorites)>>
                /\ UNCHANGED last_call
        /\ reread' = (reread /\ game_ini' = game_ini)
        /\ UNCHANGED <<last_session, result, calls, launched, outsideGame>>

\* Game::launch, called directly: the game process is started, or Launch::new
\* fails; Game.ini is neither read nor written.  The model follows direct
\* launches while fewer than MaxCalls processes were started.
Launch ==
    \E io \in {"Ok", "LaunchError"} :
        /\ launched < MaxCalls
        /\ launched' = IF io = "Ok" THEN launched + 1 ELSE launched
        /\ UNCHANGED <<game_ini, last_session, reread, last_call, result, calls, failed_saves,
                     outsideGame>>

\* Game::continue_session, called directly: launch with "-continuesession"
ContinueSession == Launch

\* The sessions a caller assigns.
ServerRefs ==
    {[kind |-> "Unknown", addr |-> addr] : addr \in {a \in SocketAddrs : a.port = 7}}
        \cup {[kind |-> "Known", server |-> server] : server \in {s \in Catalogue : s.id = 1}}

MapRefs ==
    {[kind |-> "Known", map_id |-> m] : m \in {0}}
        \cup {[kind |-> "Unknown", asset_path |-> path] : path \in {<<47, 99>>}}

Sessions ==
    {[kind |-> "Online", server |-> server] : server \in ServerRefs}
        \cup {[kind |-> k, map |-> map] : k \in {"SinglePlayer", "CoOp"}, map \in MapRefs}

\* Game::last_session: the caller assigns the last session through the guard.
AssignLastSession ==
    \E session \in Option(Sessions) :
        /\ last_session' = session
        /\ reread' = FALSE
        /\ UNCHANGED <<game_ini, last_call, result, calls, launched, failed_saves, outsideGame>>

\* Game::new on the next start of the launcher.  With a Game.ini that exists
\* and cannot be read or parsed it returns Err: there is no Game and no last
\* session.
GameNew ==
    \E io \in {"Ok", "LoadError"} :
        /\ IF game_ini # <<>> /\ load_fails(io)
           THEN /\ last_session' = <<>>
                /\ reread' = FALSE
           ELSE /\ last_session' = Game_new_last_session
                /\ reread' = TRUE
        /\ UNCHANGED <<game_ini, last_call, result, calls, launched, failed_saves, outsideGame>>

NextGame ==
    \/ JoinServer
    \/ LaunchSinglePlayer
    \/ SaveFavorites
    \/ Launch
    \/ ContinueSession
    \/ AssignLastSession
    \/ GameNew

SpecGame == InitGame /\ [][NextGame]_vars

(***************************************************************************)
(* Steam specification: the authentication ticket of a Steam instance,     *)
(* src/src/game/platform/steam.rs.  The Steam client is running or not and *)
(* its user is logged on or not; every request for a ticket that Steam      *)
(* answers yields a new ticket.                                            *)
(***************************************************************************)
Branches == {"Main", "PublicBeta"}

\* init_client: a Client if Steam is running
init_client(s, branch) == IF s.running THEN <<branch>> ELSE <<>>

\* requests a ticket whenever the user is logged on
auth_ticket_mut(s) ==
    LET requests == s.client # <<>> /\ s.logged_on
        ticket == IF requests THEN <<s.requested + 1>> ELSE s.ticket
    IN  [s EXCEPT !.ticket = ticket,
                  !.requested = IF requests THEN @ + 1 ELSE @,
                  !.returned = ticket,
                  !.auth_calls = @ + 1]

\* Steam::auth_ticket: the Steam instance after the call; returned is the
\* value of the call.  SteamTicket::new requests the ticket.
auth_ticket(s) ==
    LET requests == s.ticket = <<>> /\ s.client # <<>> /\ s.logged_on
        ticket == IF requests THEN <<s.requested + 1>> ELSE s.ticket
    IN  [s EXCEPT !.ticket = ticket,
                  !.requested = IF requests THEN @ + 1 ELSE @,
                  !.returned = ticket,
                  !.auth_calls = @ + 1]

\* Steam::locate
InitSteam ==
    /\ NoLists
    /\ NoFilter
    /\ NoCmp
    /\ NoConfig
    /\ NoQuery
    /\ NoGame
    /\ NoUpdate
    /\ steam \in [running : BOOLEAN,
                  logged_on : BOOLEAN,
                  client : {<<>>},
                  ticket : {<<>>},
                  requested : {0},
                  returned : {<<>>},
                  auth_calls : {0}]

\* The Steam client is started or closed.
ToggleRunning ==
    /\ steam' = [steam EXCEPT !.running = ~@]
    /\ UNCHANGED outsideSteam

\* The user of the Steam client logs on or off.
ToggleLoggedOn ==
    /\ steam' = [steam EXCEPT !.logged_on = ~@]
    /\ UNCHANGED outsideSteam

\* Steam::init_game: the client is replaced unless collecting the installed
\* mods fails first.
SteamInitGame ==
    /\ \E branch \in Branches, mods_ok \in BOOLEAN :
        steam' = IF mods_ok
                 THEN [steam EXCEPT !.client = init_client(steam, branch)]
                 ELSE steam
    /\ UNCHANGED outsideSteam

\* Steam::check_client
CheckClient ==
    /\ \E branch \in Branches :
        steam' = IF steam.client = <<>>
                 THEN [steam EXCEPT !.client = init_client(steam, branch)]
                 ELSE steam
    /\ UNCHANGED outsideSteam

\* Steam::auth_ticket
AuthTicket ==
    /\ steam.auth_calls < MaxAuthCalls
    /\ steam' = auth_ticket(steam)
    /\ UNCHANGED outsideSteam

NextSteam ==
    \/ ToggleRunning
    \/ ToggleLoggedOn
    \/ SteamInitGame
    \/ CheckClient
    \/ AuthTicket

SpecSteam == InitSteam /\ [][NextSteam]_vars

(***************************************************************************)
(* Update specification: consolidation of two GUI updates,                 *)
(* src/src/gui.rs.  An update is a record of its variant and the value it  *)
(* carries; a Result is Ok(value) or Err(value).                           *)
(***************************************************************************)
Ok(v) == [ok |-> TRUE, value |-> v]
Err(e) == [ok |-> FALSE, value |-> e]

Responses == 1..NumResponses

\* the batches of at most n responses
RECURSIVE BatchesUpTo(_)
BatchesUpTo(n) ==
    IF n = 0 THEN {<<>>}
    ELSE BatchesUpTo(n - 1) \cup
         {Append(b, r) : b \in {x \in BatchesUpTo(n - 1) : Len(x) = n - 1}, r \in Responses}

\* HomeUpdate
HomeUpdates == {[tag |-> "LastSession"]} \cup [tag : {"AuthState"}, state : BOOLEAN]

\* ServerBrowserUpdate: the server list, one server's response or a batch
\* of responses.
ServerBrowserUpdates ==
    {[tag |-> "PopulateServers"]}
        \cup [tag : {"UpdateServer"}, response : Responses]
        \cup [tag : {"BatchUpdateServers"}, responses : BatchesUpTo(MaxBatch) \ {<<>>}]

SinglePlayerUpdates == {[tag |-> "PopulateMaps"]}
ModManagerUpdates == {[tag |-> "PopulateMods"]}

\* Update
Updates ==
    [variant : {"HomeUpdate"}, update : HomeUpdates]
        \cup [variant : {"ServerBrowser"}, update : ServerBrowserUpdates]
        \cup [variant : {"SinglePlayer"}, update : SinglePlayerUpdates]
        \cup [variant : {"ModManager"}, update : ModManagerUpdates]

\* From<ServerBrowserUpdate> for Update
ServerBrowser_into(u) == [variant |-> "ServerBrowser", update |-> u]

\* ServerBrowserUpdate::try_consolidate: a response joins the batch before
\* it, two responses become a batch, and every other pair is handed back.
ServerBrowserUpdate_try_consolidate(this, other) ==
    IF this.tag = "BatchUpdateServers" /\ other.tag = "UpdateServer"
    THEN Ok([tag |-> "BatchUpdateServers", responses |-> Append(this.responses, other.response)])
    ELSE IF this.tag = "UpdateServer" /\ other.tag = "UpdateServer"
    THEN Ok([tag |-> "BatchUpdateServers", responses |-> <<this.response, other.response>>])
    ELSE Err(<<this, other>>)

\* Update::consolidation_result
consolidation_result(res) ==
    IF res.ok
    THEN Ok(ServerBrowser_into(res.value))
    ELSE Err(<<ServerBrowser_into(res.value[1]), ServerBrowser_into(res.value[2])>>)

\* hands the pair back the other way round
try_consolidate_mut(this, other) ==
    IF this.variant = "ServerBrowser" /\ other.variant = "ServerBrowser"
    THEN consolidation_result(ServerBrowserUpdate_try_consolidate(this.update, other.update))
    ELSE Err(<<other, this>>)

\* Update::try_consolidate
try_consolidate(this, other) ==
    IF this.variant = "ServerBrowser" /\ other.variant = "ServerBrowser"
    THEN consolidation_result(ServerBrowserUpdate_try_consolidate(this.update, other.update))
    ELSE Err(<<this, other>>)

\* Two updates wait to be consolidated.
InitUpdate ==
    /\ NoLists
    /\ NoFilter
    /\ NoCmp
    /\ NoConfig
    /\ NoQuery
    /\ NoGame
    /\ NoSteam
    /\ this_update \in {<<u>> : u \in Updates}
    /\ other_update \in {<<u>> : u \in Updates}
    /\ consolidated = <<>>

\* this.try_consolidate(other)
TryConsolidate ==
    /\ consolidated = <<>>
    /\ consolidated' = <<try_consolidate(this_update[1], other_update[1])>>
    /\ UNCHANGED <<this_update, other_update>>
    /\ UNCHANGED outsideUpdate

NextUpdate == TryConsolidate

SpecUpdate == InitUpdate /\ [][NextUpdate]_vars

(***************************************************************************)
(* Properties of the lists (Spec).                                         *)
(***************************************************************************)
\* The record sequence of list n.
RecordsOf(n) == [i \in 1..len(n) |-> at(n, i - 1)]

Reverse(seq) == [i \in 1..Len(seq) |-> seq[Len(seq) + 1 - i]]

IndexSet(k) == {views[k].indices[i] : i \in 1..Len(views[k].indices)}

IsSorted(k) == history[k].op = "sorted"
IsFiltered(k) == history[k].op = "filtered"

\* C1: a filtered view holds exactly the positions of its source whose record
\* the filter matches, and is no longer than its source.
C1_FilteredExact ==
    \A k \in 1..Len(views) :
        IsFiltered(k) =>
            LET src == views[k].source
                f == history[k].filter
            IN  /\ IndexSet(k) = {i \in 0..(len(src) - 1) : matches(f, at(src, i))}
                /\ \A i \in 1..len(k) : matches(f, at(k, i - 1))
                /\ len(k) <= len(src)

\* A filter applied to a derived view keeps some of its records and drops others.
C1_Witness ==
    \E k \in 1..Len(views) :
        /\ IsFiltered(k)
        /\ views[k].source # 0
        /\ len(k) > 0
        /\ len(k) < len(views[k].source)

\* C2: a sorted view is a permutation of its source: same length, every
\* position of the source exactly once.
C2_SortedPermutation ==
    \A k \in 1..Len(views) :
        IsSorted(k) =>
            /\ len(k) = len(views[k].source)
            /\ IndexSet(k) = 0..(len(views[k].source) - 1)

\* A sort of three records that moved them.
C2_Witness ==
    \E k \in 1..Len(views) :
        /\ IsSorted(k)
        /\ len(k) >= 3
        /\ views[k].indices # Range0(len(k))

\* Records with one name and different ids at positions p < q of a view sorted
\* by name.
NameTies(k) ==
    {pq \in (1..len(k)) \X (1..len(k)) :
        /\ pq[1] < pq[2]
        /\ at(k, pq[1] - 1).name = at(k, pq[2] - 1).name
        /\ at(k, pq[1] - 1).id # at(k, pq[2] - 1).id}

\* C3 as claimed: under SortKey::Name, in either direction, records with the
\* same name appear in id-ascending order.
C3_Original ==
    \A k \in 1..Len(views) :
        (IsSorted(k) /\ history[k].criteria.key = "Name") =>
            \A pq \in NameTies(k) : at(k, pq[1] - 1).id < at(k, pq[2] - 1).id

\* C3 (amended): under SortKey::Name records with the same name and different
\* ids appear in id-ascending order when ascending is true and in id-descending
\* order when it is false, wherever they were in the source.
C3_TieBreak ==
    \A k \in 1..Len(views) :
        (IsSorted(k) /\ history[k].criteria.key = "Name") =>
            \A pq \in NameTies(k) :
                IF history[k].criteria.ascending
                THEN at(k, pq[1] - 1).id < at(k, pq[2] - 1).id
                ELSE at(k, pq[1] - 1).id > at(k, pq[2] - 1).id

\* Two records of one name stood in id-descending order in the base list and an
\* ascending sort by name put them in id-ascending order.
C3_Witness ==
    \E k \in 1..Len(views) :
        /\ IsSorted(k)
        /\ history[k].criteria = [key |-> "Name", ascending |-> TRUE]
        /\ views[k].source = 0
        /\ NameTies(k) # {}
        /\ \E i, j \in 1..Len(servers) :
            i < j /\ servers[i].name = servers[j].name /\ servers[i].id > servers[j].id

\* C4: the record sequence of L.sorted(S.reversed()) is the reverse of the
\* record sequence of L.sorted(S).
C4_ReversedIsReverse ==
    \A j, k \in 1..Len(views) :
        (/\ IsSorted(j)
         /\ IsSorted(k)
         /\ views[j].source = views[k].source
         /\ history[j].criteria = reversed(history[k].criteria)) =>
            RecordsOf(j) = Reverse(RecordsOf(k))

\* Both sorts of a list of three records, two of which tie on the primary key.
C4_Witness ==
    \E j, k \in 1..Len(views) :
        /\ IsSorted(j)
        /\ IsSorted(k)
        /\ views[j].source = views[k].source
        /\ history[j].criteria = reversed(history[k].criteria)
        /\ len(k) >= 3
        /\ \E p, q \in 1..len(k) :
            p # q /\ key_cmp(history[k].criteria.key, at(k, p - 1), at(k, q - 1)) = "Equal"

\* C5: sorting a sorted view again by the same criteria yields the same record
\* sequence.
C5_SortIdempotent ==
    \A k \in 1..Len(views) :
        (/\ IsSorted(k)
         /\ views[k].source # 0
         /\ IsSorted(views[k].source)
         /\ history[views[k].source].criteria = history[k].criteria) =>
            RecordsOf(k) = RecordsOf(views[k].source)

\* The first sort moved three records, the second sort was applied to its result.
C5_Witness ==
    \E k \in 1..Len(views) :
        /\ IsSorted(k)
        /\ views[k].source # 0
        /\ IsSorted(views[k].source)
        /\ history[views[k].source].criteria = history[k].criteria
        /\ len(k) >= 3
        /\ views[views[k].source].indices # Range0(len(k))

\* The reference of C6: the records matching f are copied out, and each record
\* of the copy goes to the place given by the number of records of the copy
\* the comparator puts before it.
ReferenceCopy(n, f) == SelectSeq(RecordsOf(n), LAMBDA s : matches(f, s))

ReferenceSort(recs, criteria) ==
    [p \in 1..Len(recs) |->
        CHOOSE s \in {recs[i] : i \in 1..Len(recs)} :
            Cardinality({i \in 1..Len(recs) : comparator(criteria, recs[i], s) = "Less"}) = p - 1]

\* C6: L.filtered(F).sorted(S) has the record sequence of the reference.
C6_Composition ==
    \A k \in 1..Len(views) :
        (/\ IsSorted(k)
         /\ views[k].source # 0
         /\ IsFiltered(views[k].source)) =>
            LET j == views[k].source
            IN  RecordsOf(k) =
                    ReferenceSort(ReferenceCopy(views[j].source, history[j].filter),
                                  history[k].criteria)

\* The filter dropped a record, and the sort moved the records it kept.
C6_Witness ==
    \E k \in 1..Len(views) :
        /\ IsSorted(k)
        /\ views[k].source # 0
        /\ IsFiltered(views[k].source)
        /\ len(k) >= 2
        /\ len(k) < len(views[views[k].source].source)
        /\ views[k].indices # Range0(len(k))

\* C11: every index a view stores is a position of its source, so view[i]
\* succeeds for every i < view.len() and is out of range only for i >= view.len().
C11_IndicesInRange ==
    \A k \in 1..Len(views) :
        /\ views[k].source \in 0..(k - 1)
        /\ \A p \in 1..Len(views[k].indices) :
            views[k].indices[p] \in 0..(len(views[k].source) - 1)
        /\ \A i \in 0..(Len(servers) + 1) : (index(k, i) = <<>>) <=> (i >= len(k))

\* A view of a view that is shorter than the base list: its last position is
\* read, the position after it is out of range although the base list has it.
C11_Witness ==
    \E k \in 1..Len(views) :
        /\ views[k].source # 0
        /\ len(k) >= 1
        /\ len(k) < Len(servers)
        /\ index(k, len(k) - 1) # <<>>
        /\ index(k, len(k)) = <<>>
        /\ index(0, len(k)) # <<>>

\* The position in the base list that position i of list n resolves to,
\* following the indices of every view of the chain.
RECURSIVE Resolve(_, _)
Resolve(n, i) == IF n = 0 THEN i ELSE Resolve(views[n].source, views[n].indices[i + 1])

\* C12: the record at position i of a view is the record of the base list at
\* the position its chain of index sequences leads to; a view holds a source
\* and indices, and no record.
C12_IndexResolution ==
    \A k \in 1..Len(views) :
        /\ DOMAIN views[k] = {"source", "indices"}
        /\ \A i \in 0..(len(k) - 1) :
            /\ Resolve(k, i) \in 0..(Len(servers) - 1)
            /\ at(k, i) = servers[Resolve(k, i) + 1]
            /\ index(k, i) = <<servers[Resolve(k, i) + 1]>>

\* A view of a view, neither of which keeps the order of its source.
C12_Witness ==
    \E k \in 1..Len(views) :
        /\ views[k].source # 0
        /\ len(k) >= 2
        /\ views[k].indices # Range0(len(k))
        /\ views[views[k].source].indices # Range0(len(views[k].source))
        /\ \E i \in 0..(len(k) - 1) : Resolve(k, i) # views[k].indices[i + 1]

\* C13: filtered and sorted leave the base list and every view derived before
\* as they were: same length, same record sequence.
C13_NoSideEffects ==
    [][/\ servers' = servers
       /\ Len(views') >= Len(views)
       /\ \A k \in 1..Len(views) :
            /\ views'[k] = views[k]
            /\ len(k)' = len(k)
            /\ RecordsOf(k)' = RecordsOf(k)]_vars

\* A view was derived from a view that was derived from a base list of three.
C13_Witness ==
    /\ Len(servers) >= 3
    /\ Len(views) >= 2
    /\ views[2].source = 1
    /\ views[1].indices # Range0(Len(servers))

\* C16: the indices of a filtered view are strictly increasing: the records it
\* keeps stand in the order of its source, none twice.
C16_FilteredKeepsOrder ==
    \A k \in 1..Len(views) :
        IsFiltered(k) =>
            \A p, q \in 1..len(k) : p < q => views[k].indices[p] < views[k].indices[q]

\* A filter kept two records of a sorted view that had moved its records.
C16_Witness ==
    \E k \in 1..Len(views) :
        /\ IsFiltered(k)
        /\ len(k) >= 2
        /\ views[k].source # 0
        /\ IsSorted(views[k].source)
        /\ views[views[k].source].indices # Range0(len(views[k].source))

\* C17: a sorted view is ordered by the comparator of its criteria: no record
\* is Greater than a record after it.
C17_SortedIsOrdered ==
    \A k \in 1..Len(views) :
        IsSorted(k) =>
            \A p, q \in 1..len(k) :
                p < q => comparator(history[k].criteria, at(k, p - 1), at(k, q - 1)) # "Greater"

\* A sort of a view that moved three records.
C17_Witness ==
    \E k \in 1..Len(views) :
        /\ IsSorted(k)
        /\ views[k].source # 0
        /\ len(k) >= 3
        /\ views[k].indices # Range0(len(k))

(***************************************************************************)
(* Properties of the comparator (SpecCmp).                                 *)
(***************************************************************************)
\* The value of the primary key of a record.
KeyOf(key, s) ==
    CASE key = "Name" -> s.name
      [] key = "Map" -> s.map
      [] key = "Mode" -> <<s.mode>>
      [] key = "Region" -> <<s.region>>

Compared == call.ordering # <<>>

\* C14: for every criteria the comparator is a strict weak ordering: a record
\* compares Equal to itself, swapping the arguments reverses the result, Less
\* is transitive and so is Equal, and two records compare Equal only when they
\* agree on the primary key and on id.
C14_StrictWeakOrdering ==
    Compared =>
        LET c == call.criteria
            a == call.lhs
            b == call.rhs
            r == call.ordering[1]
        IN  /\ r \in {"Less", "Equal", "Greater"}
            /\ a = b => r = "Equal"
            /\ (r = "Less") <=> (call.swapped[1] = "Greater")
            /\ (r = "Equal") <=> (call.swapped[1] = "Equal")
            /\ r = "Equal" => KeyOf(c.key, a) = KeyOf(c.key, b) /\ a.id = b.id
            /\ \A d \in CmpRecords :
                /\ (r = "Less" /\ comparator(c, b, d) = "Less") => comparator(c, a, d) = "Less"
                /\ r = "Equal" => comparator(c, a, d) = comparator(c, b, d)

\* Two records that agree on the primary key and differ in id have been
\* compared (not Equal), and a record other than the first compares Equal to it.
C14_Witness ==
    /\ Compared
    /\ call.lhs # call.rhs
    /\ KeyOf(call.criteria.key, call.lhs) = KeyOf(call.criteria.key, call.rhs)
    /\ call.lhs.id # call.rhs.id
    /\ call.ordering[1] # "Equal"
    /\ \E d \in CmpRecords : d # call.lhs /\ comparator(call.criteria, call.lhs, d) = "Equal"

\* C15: with ascending = false the comparator returns the reverse of what the
\* ascending comparator of the same key returns, so records that tie on the
\* primary key are ordered by id descending.
C15_DescendingReversesAll ==
    (Compared /\ ~call.criteria.ascending) =>
        LET up == [key |-> call.criteria.key, ascending |-> TRUE]
            a == call.lhs
            b == call.rhs
            r == call.ordering[1]
        IN  /\ comparator(up, a, b) = "Less" => r = "Greater"
            /\ comparator(up, a, b) = "Greater" => r = "Less"
            /\ comparator(up, a, b) = "Equal" => r = "Equal"
            /\ (KeyOf(up.key, a) = KeyOf(up.key, b) /\ a.id < b.id) =>
                   (r = "Greater" /\ comparator(up, a, b) = "Less")

\* A descending comparison of two records that tie on the primary key, the one
\* with the smaller id first.
C15_Witness ==
    /\ Compared
    /\ ~call.criteria.ascending
    /\ KeyOf(call.criteria.key, call.lhs) = KeyOf(call.criteria.key, call.rhs)
    /\ call.lhs.id < call.rhs.id
    /\ call.ordering[1] = "Greater"

(***************************************************************************)
(* Properties of Filter (SpecFilter).  The criteria are stated here in the *)
(* words of the specification, not with the operators of matches.          *)
(***************************************************************************)
\* text contains p as a contiguous substring, compared case-insensitively.
ContainsCI(text, p) ==
    \E start \in 0..(Len(text) - Len(p)) :
        \A k \in 1..Len(p) : Fold(text[start + k]) = Fold(p[k])

NameHolds(s) == ContainsCI(s.name, given.name)
MapHolds(s) == ContainsCI(s.map, given.map)
ModeHolds(s) == filter.mode = <<>> \/ filter.mode = <<s.mode>>
RegionHolds(s) == filter.region = <<>> \/ filter.region = <<s.region>>
BuildHolds(s) == filter.build_id = <<>> \/ filter.build_id = <<s.build_id>>
PasswordHolds(s) == filter.password_protected \/ ~s.password_protected

\* name, map, mode, region and build_id express no opinion.
OthersNeutral ==
    /\ given.name = <<>>
    /\ given.map = <<>>
    /\ filter.mode = <<>>
    /\ filter.region = <<>>
    /\ filter.build_id = <<>>

\* C7: with all other criteria neutral, a password-protected record is matched
\* exactly when the filter includes password-protected servers, and a record
\* that is not password-protected is matched under both settings.
C7_PasswordPolicy ==
    OthersNeutral =>
        \A s \in ServerUniverse :
            /\ s.password_protected => (matches(filter, s) <=> filter.password_protected)
            /\ ~s.password_protected => matches(filter, s)

C7_Witness ==
    /\ OthersNeutral
    /\ filter.password_protected
    /\ \E s \in ServerUniverse : s.password_protected /\ matches(filter, s)
    /\ \E s \in ServerUniverse : ~s.password_protected /\ matches(filter, s)

\* C8: matches is true exactly when the six criteria (name, map, mode, region,
\* build_id, password policy) all hold; a record failing one of them is rejected.
C8_AllCriteriaAnded ==
    \A s \in ServerUniverse :
        matches(filter, s) <=>
            /\ NameHolds(s)
            /\ MapHolds(s)
            /\ ModeHolds(s)
            /\ RegionHolds(s)
            /\ BuildHolds(s)
            /\ PasswordHolds(s)

\* Every criterion is active, a record is matched, and a record that fails the
\* region criterion alone is rejected.
C8_Witness ==
    /\ given.name # <<>>
    /\ given.map # <<>>
    /\ filter.mode # <<>>
    /\ filter.region # <<>>
    /\ filter.build_id # <<>>
    /\ \E s \in ServerUniverse :
        /\ matches(filter, s)
        /\ \E r \in Regions : r # s.region /\ ~matches(filter, [s EXCEPT !.region = r])

\* C9: for mode, region and build_id, a None field makes the result independent
\* of the record's value of that field (with the three of them None and nothing
\* else excluding it, every record is matched), and a Some(v) field accepts only
\* the records whose value is v.
C9_OptionalFields ==
    \A s \in ServerUniverse :
        /\ (OthersNeutral /\ filter.password_protected) => matches(filter, s)
        /\ filter.mode = <<>> =>
               \A v \in Modes : matches(filter, [s EXCEPT !.mode = v]) = matches(filter, s)
        /\ filter.region = <<>> =>
               \A v \in Regions : matches(filter, [s EXCEPT !.region = v]) = matches(filter, s)
        /\ filter.build_id = <<>> =>
               \A v \in Builds : matches(filter, [s EXCEPT !.build_id = v]) = matches(filter, s)
        /\ (filter.mode # <<>> /\ matches(filter, s)) => s.mode = filter.mode[1]
        /\ (filter.region # <<>> /\ matches(filter, s)) => s.region = filter.region[1]
        /\ (filter.build_id # <<>> /\ matches(filter, s)) => s.build_id = filter.build_id[1]

\* mode is Some and region is None: a matched record is rejected once its mode
\* differs, and stays matched whatever its region.
C9_Witness ==
    /\ filter.mode # <<>>
    /\ filter.region = <<>>
    /\ \E s \in ServerUniverse :
        /\ matches(filter, s)
        /\ \E m \in Modes : ~matches(filter, [s EXCEPT !.mode = m])
        /\ \E r \in Regions : r # s.region /\ matches(filter, [s EXCEPT !.region = r])

\* C10: after set_name(p) (set_map(p)) the name (map) criterion holds exactly
\* for the records whose name (map) contains p, literally and
\* case-insensitively; an empty p and the patterns of Filter::default() accept
\* every record.
C10_SubstringPatterns ==
    /\ \A name \in Names :
        /\ is_match(filter.name, name) <=> ContainsCI(name, given.name)
        /\ given.name = <<>> => is_match(filter.name, name)
        /\ is_match(Filter_default.name, name)
    /\ \A map \in Maps :
        /\ is_match(filter.map, map) <=> ContainsCI(map, given.map)
        /\ given.map = <<>> => is_match(filter.map, map)
        /\ is_match(Filter_default.map, map)
    /\ OthersNeutral => \A s \in ServerUniverse : ~s.password_protected => matches(filter, s)

\* set_name("a.") has acted: the name "A." is accepted, the name "AA" is not.
C10_Witness ==
    /\ given.name = <<97, 46>>
    /\ is_match(filter.name, <<65, 46>>)
    /\ ~is_match(filter.name, <<65, 65>>)
    /\ <<65, 46>> \in Names
    /\ <<65, 65>> \in Names


(***************************************************************************)
(* Properties of the persisted Config (SpecConfig).                        *)
(***************************************************************************)
\* C26: a load from a file without keys returns, field by field, the Config
\* that TransientConfig::load returns, which is Config::default().
C26_PersistersAgreeOnDefaults ==
    (fresh /\ ini = Ini_new) =>
        \A i \in DOMAIN FieldsOf(config) :
            FieldsOf(config)[i] = FieldsOf(TransientConfig_load)[i]


(***************************************************************************)
(* Properties of a refresh (SpecQuery).                                    *)
(***************************************************************************)
\* The addresses whose server never gives a usable response.
Unresponsive == {a \in Addrs : behaviour[a].kind # "Response"}

\* The positions of the updates delivered for a.
UpdatesOf(a) == {i \in 1..Len(delivered) : delivered[i].addr = a}

\* C19: when the batch finishes, the caller has received exactly N record
\* updates, exactly one for each input address, and the K addresses that
\* never responded are the ones marked Invalid; none is omitted or
\* duplicated.
C19_BatchCompleteness ==
    phase = "Completed" =>
        /\ Len(delivered) = NumAddrs
        /\ \A a \in Addrs : Cardinality(UpdatesOf(a)) = 1
        /\ \A i \in 1..Len(delivered) :
            /\ delivered[i].addr \in Addrs
            /\ (delivered[i].addr \in Unresponsive) <=> (delivered[i].validity = "Invalid")
            /\ delivered[i].validity \in {"Valid", "Outdated", "Invalid"}

\* C19 witness: a finished batch in which some, but not all, addresses never
\* responded, and one of them was given up before a response arrived.
C19_Witness ==
    /\ phase = "Completed"
    /\ Unresponsive # {}
    /\ Unresponsive # Addrs
    /\ delivered[1].addr \in Unresponsive
    /\ delivered[Len(delivered)].validity = "Valid"

\* C20: once the refresh is cancelled, no step delivers a record update,
\* whatever exchanges were in flight.
C20_NoUpdateAfterCancel ==
    [][phase = "Cancelled" => delivered' = delivered]_vars

\* C20 witness: the refresh was cancelled after an update had been
\* delivered and while a sent request was still waiting for its response.
C20_Witness ==
    /\ phase = "Cancelled"
    /\ delivered # <<>>
    /\ \E a \in Addrs : exchange[a].state = "abandoned" /\ exchange[a].sent


\* C21: at every moment of a batch at most Cap exchanges are in flight,
\* whatever the interleaving of sends, responses and timeouts.
C21_CapRespected == Cardinality(InFlight) <= Cap

\* C21 witness: Cap exchanges are in flight, one of them on a retry, while
\* another address waits for a slot.
C21_Witness ==
    /\ phase = "Querying"
    /\ Cardinality(InFlight) = Cap
    /\ \E a \in InFlight : exchange[a].retries > 0
    /\ \E a \in Addrs : exchange[a].state = "queued"


\* The record a server of the given behaviour ends with.
Outcome(b) == IF b.kind = "Response" THEN classify(b.build) ELSE "Invalid"

\* The exchange with b can take a step.
CanStep(b) ==
    /\ phase = "Querying"
    /\ \/ exchange[b].state = "inflight"
       \/ exchange[b].state = "queued" /\ Cardinality(InFlight) < Cap

\* A failed attempt (timeout or malformed response) of the exchange with a.
FailedAttempt(a) ==
    /\ Deliverable(a)
    /\ behaviour[a].kind # "Response"
    /\ exchange'[a] # exchange[a]
    /\ phase' = phase

\* The exchange with b has not ended.
Unfinished(b) == exchange[b].state \in {"queued", "inflight"}

\* C22 as stated: an exchange never retries more than MaxRetries times and
\* every update delivered for an address is the outcome of that address
\* alone; a failed attempt on one address leaves the exchange of every other
\* address as it is and delays none of them: every other address that has
\* not ended can take its next step; and a batch that is querying
\* eventually completes (or is cancelled), also when servers never answer.
C22_Original ==
    /\ [](\A a \in DOMAIN exchange : exchange[a].retries <= MaxRetries)
    /\ [](\A i \in 1..Len(delivered) :
            delivered[i].validity = Outcome(behaviour[delivered[i].addr]))
    /\ [][\A a \in DOMAIN exchange : FailedAttempt(a) =>
            \A b \in DOMAIN exchange \ {a} :
                /\ exchange'[b] = exchange[b]
                /\ \A i \in UpdatesOf(b) : delivered'[i] = delivered[i]
                /\ Unfinished(b) => CanStep(b)']_vars
    /\ (phase = "Querying") ~> (phase \in {"Completed", "Cancelled"})

\* C22 as amended: an exchange never retries more than MaxRetries times and
\* every update delivered for an address is the outcome of that address
\* alone; a failed attempt on one address leaves the exchange of every other
\* address as it is, and every other address that is in flight stays in
\* flight and can take its next step (an address queued behind a full cap
\* waits while the retried exchange keeps its slot); and a batch that is
\* querying eventually completes (or is cancelled), also when servers never
\* answer.
C22_BoundedRetriesAndProgress ==
    /\ [](\A a \in DOMAIN exchange : exchange[a].retries <= MaxRetries)
    /\ [](\A i \in 1..Len(delivered) :
            delivered[i].validity = Outcome(behaviour[delivered[i].addr]))
    /\ [][\A a \in DOMAIN exchange : FailedAttempt(a) =>
            \A b \in DOMAIN exchange \ {a} :
                /\ exchange'[b] = exchange[b]
                /\ \A i \in UpdatesOf(b) : delivered'[i] = delivered[i]
                /\ exchange[b].state = "inflight" =>
                    (exchange'[b].state = "inflight" /\ CanStep(b)')
                /\ (exchange[b].state = "queued" /\ CanStep(b)) => CanStep(b)']_vars
    /\ (phase = "Querying") ~> (phase \in {"Completed", "Cancelled"})

\* C22 witness: a batch completed although a silent and a malformed server
\* used up their retries, and a server that answered was served in between.
C22_Witness ==
    /\ phase = "Completed"
    /\ \E a, b, c \in Addrs :
        /\ behaviour[a].kind = "Silent" /\ exchange[a].retries = MaxRetries
        /\ behaviour[b].kind = "Malformed" /\ exchange[b].retries = MaxRetries
        /\ behaviour[c].kind = "Response"
        /\ \E i, j, k \in 1..Len(delivered) :
            /\ i < j /\ j < k
            /\ delivered[i].addr = a /\ delivered[j].addr = c /\ delivered[k].addr = b


\* C23: no exchange exists and nothing is delivered before the fetch has
\* completed; a failed fetch starts no exchange, and no step taken while
\* fetching or after the failure changes the published ServerList; after
\* the failure nothing of the refresh changes any more.
C23_FetchPrecedesQueries ==
    /\ [](phase \in {"Fetching", "Failed"} => exchange = <<>> /\ delivered = <<>>)
    /\ [][(phase \in {"Fetching", "Failed"}) => (published' = published)]_vars
    /\ [][(phase = "Failed") => (UNCHANGED queryVars)]_vars
    /\ [][(exchange = <<>> /\ exchange' # <<>>) =>
            (phase = "Fetching" /\ phase' = "Querying" /\ DOMAIN exchange' = Addrs)]_vars

\* C23 witness: the fetch failed while a list of an earlier refresh was
\* published; that list is still the published one.
C23_Witness ==
    /\ phase = "Failed"
    /\ exchange = <<>>
    /\ published = [a \in Addrs |-> "Valid"]


\* Addresses A, B, C are 1, 2, 3: A answers with build 100, B never answers,
\* C answers with build 999; the local build is 100.
ScenarioABC ==
    /\ behaviour[1] = [kind |-> "Response", build |-> 100]
    /\ behaviour[2] = [kind |-> "Silent"]
    /\ behaviour[3] = [kind |-> "Response", build |-> 999]

\* The view of the published list with include_invalid = false (the default
\* of ServerBrowserConfig) and no other criterion.
ViewOfValid == browser_view(published_list, ServerBrowserConfig_default, Filter_default)

\* C24: when the batch of the scenario has finished, A is Valid, B is
\* Invalid and C is Outdated, and the view with include_invalid = false
\* holds A and neither B nor C; with A, B, C as the only addresses its
\* length is 1 (each further address adds one if its server answered with
\* the local build).
C24_ScenarioABC ==
    (phase = "Completed" /\ ScenarioABC) =>
        /\ published[1] = "Valid"
        /\ published[2] = "Invalid"
        /\ published[3] = "Outdated"
        /\ Len(ViewOfValid) =
            1 + Cardinality({a \in Addrs \ {1, 2, 3} : Outcome(behaviour[a]) = "Valid"})
        /\ ViewOfValid[1] = 0
        /\ \A k \in 1..Len(ViewOfValid) : ViewOfValid[k] \notin {1, 2}

\* C24 witness: the scenario has finished with B given up after its
\* retries, and the view is exactly <<A>>.
C24_Witness ==
    /\ phase = "Completed"
    /\ ScenarioABC
    /\ exchange[2].retries = MaxRetries
    /\ ViewOfValid = <<0>>
    /\ published_list[ViewOfValid[1] + 1].id = 1


(***************************************************************************)
(* Properties of the last session (SpecGame).                              *)
(***************************************************************************)
\* The session a call records.
SessionOf(c) ==
    IF c.op = "join_server"
    THEN [kind |-> "Online", server |-> [kind |-> "Unknown", addr |-> c.addr]]
    ELSE [kind |-> "SinglePlayer", map |-> [kind |-> "Known", map_id |-> c.map_id]]

\* C27: after calls of join_server and launch_single_player whose saves
\* succeeded, the last session Game::new reads from Game.ini is the one of
\* the most recent call: Online(Unknown(addr)) or SinglePlayer of the
\* launched map, never CoOp and never the session of an earlier call.
C27_LastSessionIsLastCall ==
    (last_call # <<>> /\ reread) =>
        /\ last_session = <<SessionOf(last_call[1])>>
        /\ last_session[1].kind # "CoOp"

\* C27 witness: after a co-op session of the game and a single-player
\* launch, a server was joined, and Game::new reads the joined server.
C27_Witness ==
    /\ reread
    /\ calls = MaxCalls
    /\ game_ini # <<>>
    /\ Ini_get(game_ini[1], SECTION_SAVED_COOP_DATA, KEY_WAS_COOP_ENABLED) = <<TextFalse>>
    /\ Ini_get(game_ini[1], SECTION_SAVED_COOP_DATA, KEY_LAST_MAP) = <<map_at(1).asset_path>>
    /\ last_call = <<[op |-> "join_server", addr |-> [ip |-> <<2, 0, 0, 2>>, port |-> 78]]>>
    /\ last_session = <<[kind |-> "Online",
                         server |-> [kind |-> "Unknown", addr |-> [ip |-> <<2, 0, 0, 2>>, port |-> 78]]]>>

\* C28: a call that returns the error of loading or saving Game.ini starts
\* no game process, and a call that starts one has saved its session in
\* Game.ini.
C28_RecordBeforeLaunch ==
    [][calls' # calls =>
        /\ (result' \in {"LoadError", "SaveError"}) => (launched' = launched)
        /\ (launched' # launched) =>
            /\ result' = "Ok"
            /\ last_call' # <<>>
            /\ game_ini' # <<>>
            /\ read_last_session(game_ini'[1]) = <<SessionOf(last_call'[1])>>]_vars

\* C28 witness: a call failed to save Game.ini after an earlier call had
\* started the game; no second process was started.
C28_Witness ==
    /\ result = "SaveError"
    /\ calls = MaxCalls
    /\ launched = MaxCalls - 1
    /\ game_ini # <<>>
    /\ last_call # <<>>


(***************************************************************************)
(* Properties of the authentication ticket (SpecSteam).                    *)
(***************************************************************************)
\* C29: a Steam instance requests at most one ticket; a call of auth_ticket
\* made while there is no client or the user is not logged on, and no
\* ticket is cached, returns None, caches nothing and requests nothing; a
\* call made once a ticket is cached returns that ticket and requests
\* nothing; a call that requests a ticket caches and returns it.
C29_SingleTicket ==
    /\ [](steam.requested <= 1)
    /\ [](steam.ticket # <<>> => steam.requested = 1)
    /\ [][steam'.auth_calls # steam.auth_calls =>
            /\ (steam.ticket = <<>> /\ (steam.client = <<>> \/ ~steam.logged_on)) =>
                /\ steam'.returned = <<>>
                /\ steam'.ticket = <<>>
                /\ steam'.requested = steam.requested
            /\ (steam.ticket # <<>>) =>
                /\ steam'.returned = steam.ticket
                /\ steam'.ticket = steam.ticket
                /\ steam'.requested = steam.requested
            /\ (steam'.requested # steam.requested) =>
                /\ steam'.ticket # <<>>
                /\ steam'.returned = steam'.ticket]_vars

\* C29 witness: a first call returned None, a later call created the
\* ticket, and a call after that, made while the user was logged off,
\* returned the same ticket.
C29_Witness ==
    /\ steam # <<>>
    /\ steam.auth_calls = MaxAuthCalls
    /\ steam.requested = 1
    /\ steam.ticket = <<1>>
    /\ steam.returned = <<1>>
    /\ ~steam.logged_on


(***************************************************************************)
(* Properties of the consolidation of updates (SpecUpdate).                *)
(***************************************************************************)
\* the responses an update carries, in order
ResponsesOf(u) ==
    IF u.variant # "ServerBrowser" THEN <<>>
    ELSE IF u.update.tag = "UpdateServer" THEN <<u.update.response>>
    ELSE IF u.update.tag = "BatchUpdateServers" THEN u.update.responses
    ELSE <<>>

\* C30: try_consolidate returns Ok only for two ServerBrowser updates that
\* the server browser consolidates, and the consolidated update is a
\* ServerBrowser update carrying the responses of both in order; for every
\* other pair it returns Err with the two updates unchanged, self first and
\* other second.
C30_NothingLostOrReordered ==
    consolidated # <<>> =>
        LET this == this_update[1]
            other == other_update[1]
            browser == IF this.variant = "ServerBrowser" /\ other.variant = "ServerBrowser"
                       THEN <<ServerBrowserUpdate_try_consolidate(this.update, other.update)>>
                       ELSE <<>>
            merges == browser # <<>> /\ browser[1].ok
        IN  /\ consolidated[1].ok <=> merges
            /\ merges =>
                /\ consolidated[1].value.variant = "ServerBrowser"
                /\ consolidated[1].value.update = browser[1].value
                /\ ResponsesOf(consolidated[1].value) = ResponsesOf(this) \o ResponsesOf(other)
            /\ ~merges => consolidated[1].value = <<this, other>>

\* C30 witness: a ServerBrowser update and a different update of another
\* variant were handed back as they came.
C30_Witness ==
    /\ consolidated # <<>>
    /\ ~consolidated[1].ok
    /\ this_update[1].variant = "ServerBrowser"
    /\ other_update[1].variant = "HomeUpdate"
    /\ consolidated[1].value = <<this_update[1], other_update[1]>>

====
